---------------------------- MODULE Spec2Model ----------------------------
(***************************************************************************)
(* A model of the job matcher (src/job_matcher.py) and of the candidate    *)
(* schema it scores (src/cv_schema.py).                                    *)
(*                                                                         *)
(* Text is modelled character by character: a Python str is a sequence of  *)
(* one-character strings, so that lower(), split(), the substring test     *)
(* `a in b`, int() and the regular expressions act as they do in the code. *)
(* A Python float is modelled as an exact rational <<n, d>> in lowest      *)
(* terms with d > 0 (IEEE rounding is abstracted).                         *)
(***************************************************************************)
EXTENDS Integers, Sequences, FiniteSets, TLC

VARIABLES
    skill_categories,      \* JobMatcher.skill_categories (set in __init__)
    weights,               \* JobMatcher.weights (set in __init__)
    cv_data_list,          \* the caller's list of candidate dictionaries
    job_description,       \* argument of the last call
    top_k,                 \* argument of the last call
    include_explanations,  \* argument of the last call
    provider,              \* the embedding model's behaviour during the last call
    now_year,              \* datetime.now().year during the last call
    job_requirements,      \* the requirements extracted by the last call
    scores,                \* the value returned by _calculate_matching_scores
    ret,                   \* the value returned by the last call
    exported,              \* the text returned by export_matches_to_json
    total_years,           \* the value returned by get_total_experience_years
    job_descriptions,      \* argument of the last call of bulk_match
    pc                     \* which operation returned last

vars == <<skill_categories, weights, cv_data_list, job_description, top_k,
          include_explanations, provider, now_year, job_requirements,
          scores, ret, exported, total_years, job_descriptions, pc>>

-----------------------------------------------------------------------------
(* Characters and strings *)

\* the upper-case letters and their lower-case forms
LowerOf ==
    "A" :> "a" @@ "B" :> "b" @@ "C" :> "c" @@ "D" :> "d" @@ "E" :> "e" @@ "F" :> "f" @@ "G" :> "g"
    @@ "H" :> "h" @@ "I" :> "i" @@ "J" :> "j" @@ "K" :> "k" @@ "L" :> "l" @@ "M" :> "m" @@ "N" :> "n"
    @@ "O" :> "o" @@ "P" :> "p" @@ "Q" :> "q" @@ "R" :> "r" @@ "S" :> "s" @@ "T" :> "t" @@ "U" :> "u"
    @@ "V" :> "v" @@ "W" :> "w" @@ "X" :> "x" @@ "Y" :> "y" @@ "Z" :> "z"

\* the decimal digits and their values
DigitOf ==
    "0" :> 0 @@ "1" :> 1 @@ "2" :> 2 @@ "3" :> 3 @@ "4" :> 4
    @@ "5" :> 5 @@ "6" :> 6 @@ "7" :> 7 @@ "8" :> 8 @@ "9" :> 9

Whitespace == {" ", "\t", "\n"}

\* str.lower(), one character
LowerChar(c) == IF c \in DOMAIN LowerOf THEN LowerOf[c] ELSE c

\* the list [f[1], ..., f[n]] built at once (a list comprehension)
ListOf(f) == <<>> \o f

\* str.lower()
Lower(s) == ListOf([i \in 1..Len(s) |-> LowerChar(s[i])])

IsDigit(c) == c \in DOMAIN DigitOf

DigitValue(c) == DigitOf[c]

\* s[i:].startswith(w)
StartsWithAt(s, i, w) ==
    /\ i >= 1
    /\ i + Len(w) - 1 <= Len(s)
    /\ \A k \in 1..Len(w) : s[i + k - 1] = w[k]

\* the Python test `w in s` on two strings
Contains(s, w) == \E i \in 1..(Len(s) - Len(w) + 1) : StartsWithAt(s, i, w)

\* the Python test `x in lst` on a list
InList(x, lst) == \E i \in 1..Len(lst) : lst[i] = x

RECURSIVE Concat(_)
\* "".join(parts)
Concat(parts) == IF parts = <<>> THEN <<>> ELSE Head(parts) \o Concat(Tail(parts))

RECURSIVE SplitFrom(_, _, _)
\* str.split(): the maximal runs of non-whitespace characters, in order
SplitFrom(s, i, word) ==
    IF i > Len(s)
    THEN IF word = <<>> THEN <<>> ELSE <<word>>
    ELSE IF s[i] \in Whitespace
         THEN (IF word = <<>> THEN <<>> ELSE <<word>>) \o SplitFrom(s, i + 1, <<>>)
         ELSE SplitFrom(s, i + 1, Append(word, s[i]))

Split(s) == SplitFrom(s, 1, <<>>)

RECURSIVE DigitsEnd(_, _)
\* the index just after the longest run of digits that starts at i
DigitsEnd(s, i) == IF i <= Len(s) /\ IsDigit(s[i]) THEN DigitsEnd(s, i + 1) ELSE i

RECURSIVE SkipWS(_, _)
\* the index just after the longest run of whitespace that starts at i: \s*
SkipWS(s, i) == IF i <= Len(s) /\ s[i] \in Whitespace THEN SkipWS(s, i + 1) ELSE i

\* an optional literal w at i: (?:w)?
OptWord(s, i, w) == IF StartsWithAt(s, i, w) THEN i + Len(w) ELSE i

RECURSIVE DigitsValue(_, _, _)
\* the decimal value of the digits s[i..j]
DigitsValue(s, i, j) ==
    IF j < i THEN 0 ELSE 10 * DigitsValue(s, i, j - 1) + DigitValue(s[j])

RECURSIVE Strip(_)
\* str.strip() of whitespace, as int() does to its argument
Strip(s) ==
    IF s = <<>> THEN s
    ELSE IF Head(s) \in Whitespace THEN Strip(Tail(s))
    ELSE IF s[Len(s)] \in Whitespace THEN Strip(SubSeq(s, 1, Len(s) - 1))
    ELSE s

\* int(s): optional sign and decimal digits, surrounding whitespace ignored;
\* ok is FALSE where int() raises ValueError
ParseInt(s) ==
    LET t == Strip(s)
        signed == t # <<>> /\ Head(t) \in {"+", "-"}
        body == IF signed THEN Tail(t) ELSE t
    IN  IF body # <<>> /\ \A k \in 1..Len(body) : IsDigit(body[k])
        THEN [ok |-> TRUE,
              value |-> (IF signed /\ Head(t) = "-" THEN -1 ELSE 1)
                            * DigitsValue(body, 1, Len(body))]
        ELSE [ok |-> FALSE, value |-> 0]

-----------------------------------------------------------------------------
(* Floats as exact rationals *)

RECURSIVE Gcd(_, _)
Gcd(a, b) == IF b = 0 THEN a ELSE Gcd(b, a % b)

Abs(x) == IF x < 0 THEN -x ELSE x

\* n / d in lowest terms, d > 0
Rat(n, d) ==
    LET g == Gcd(Abs(n), Abs(d))
        s == IF d < 0 THEN -1 ELSE 1
    IN  <<(s * n) \div g, (s * d) \div g>>

RMul(a, b) == Rat(a[1] * b[1], a[2] * b[2])

RAdd(a, b) == Rat(a[1] * b[2] + b[1] * a[2], a[2] * b[2])

RLe(a, b) == a[1] * b[2] <= b[1] * a[2]

RLt(a, b) == a[1] * b[2] < b[1] * a[2]

\* min(a, b) as Python evaluates it: the first argument unless the second is smaller
RMin(a, b) == IF RLt(b, a) THEN b ELSE a

-----------------------------------------------------------------------------
(* JobMatcher.__init__ *)
\* self.skill_categories: the categories in insertion order, each a list of skills
InitSkillCategories ==
    <<
      [category |-> "programming_languages", skills |-> <<
          <<"p","y","t","h","o","n">>,
          <<"j","a","v","a">>,
          <<"j","a","v","a","s","c","r","i","p","t">>,
          <<"c","+","+">>,
          <<"c","#">>,
          <<"p","h","p">>,
          <<"r","u","b","y">>,
          <<"g","o">> >>],
      [category |-> "frameworks", skills |-> <<
          <<"r","e","a","c","t">>,
          <<"a","n","g","u","l","a","r">>,
          <<"v","u","e">>,
          <<"d","j","a","n","g","o">>,
          <<"f","l","a","s","k">>,
          <<"s","p","r","i","n","g">>,
          <<"n","o","d","e",".","j","s">> >>],
      [category |-> "databases", skills |-> <<
          <<"m","y","s","q","l">>,
          <<"p","o","s","t","g","r","e","s","q","l">>,
          <<"m","o","n","g","o","d","b">>,
          <<"r","e","d","i","s">>,
          <<"e","l","a","s","t","i","c","s","e","a","r","c","h">> >>],
      [category |-> "cloud_technologies", skills |-> <<
          <<"a","w","s">>,
          <<"a","z","u","r","e">>,
          <<"g","c","p">>,
          <<"d","o","c","k","e","r">>,
          <<"k","u","b","e","r","n","e","t","e","s">> >>],
      [category |-> "data_science", skills |-> <<
          <<"m","a","c","h","i","n","e"," ","l","e","a","r","n","i","n","g">>,
          <<"d","e","e","p"," ","l","e","a","r","n","i","n","g">>,
          <<"d","a","t","a"," ","s","c","i","e","n","c","e">>,
          <<"t","e","n","s","o","r","f","l","o","w">>,
          <<"p","y","t","o","r","c","h">> >>],
      [category |-> "tools", skills |-> <<
          <<"g","i","t">>,
          <<"j","e","n","k","i","n","s">>,
          <<"j","i","r","a">>,
          <<"c","o","n","f","l","u","e","n","c","e">> >>]
    >>

\* self.weights
InitWeights == [skills |-> Rat(5, 10), experience |-> Rat(3, 10), education |-> Rat(2, 10)]

-----------------------------------------------------------------------------
(* JobMatcher._extract_job_requirements *)

W_year == <<"y","e","a","r">>

W_s == <<"s">>

W_of == <<"o","f">>

W_relevant == <<"r","e","l","e","v","a","n","t">>

W_experience == <<"e","x","p","e","r","i","e","n","c","e">>

W_minimum == <<"m","i","n","i","m","u","m">>

W_plus == <<"+">>

W_slash == <<"/">>

W_present == <<"p","r","e","s","e","n","t">>

W_current == <<"c","u","r","r","e","n","t">>

W_phd == <<"p","h","d">>

W_doctorate == <<"d","o","c","t","o","r","a","t","e">>

W_master == <<"m","a","s","t","e","r">>

W_bachelor == <<"b","a","c","h","e","l","o","r">>

W_degree == <<"d","e","g","r","e","e">>

W_university == <<"u","n","i","v","e","r","s","i","t","y">>

W_college == <<"c","o","l","l","e","g","e">>

W_senior == <<"s","e","n","i","o","r">>

W_lead == <<"l","e","a","d">>

W_principal == <<"p","r","i","n","c","i","p","a","l">>

W_architect == <<"a","r","c","h","i","t","e","c","t">>

W_manager == <<"m","a","n","a","g","e","r">>

Range(f) == {f[i] : i \in DOMAIN f}

Max2(a, b) == IF b > a THEN b ELSE a

\* the skills of every category
VocabularySkills == UNION {Range(c.skills) : c \in Range(skill_categories)}

\* required_skills after the two loops over self.skill_categories: the
\* vocabulary skills that occur in the lower-cased text as substrings
RequiredSkillSet(text) ==
    LET job_desc_lower == Lower(text)
    IN  {s \in VocabularySkills : Contains(job_desc_lower, s)}

\* the lists list(a_set) can return: the elements once each, in any order
ListsOfSet(S) ==
    {f \in [1..Cardinality(S) -> S] : \A i, j \in 1..Cardinality(S) : i # j => f[i] # f[j]}

\* years?\s*(?:of\s*)?experience  or  years?\s*(?:of\s*)?(?:relevant\s*)?experience
\* matched at index i
YearsTail(s, i, relevant) ==
    /\ StartsWithAt(s, i, W_year)
    /\ LET a == SkipWS(s, OptWord(s, i + Len(W_year), W_s))
           b == IF StartsWithAt(s, a, W_of) THEN SkipWS(s, a + Len(W_of)) ELSE a
           c == IF relevant /\ StartsWithAt(s, b, W_relevant)
                THEN SkipWS(s, b + Len(W_relevant)) ELSE b
       IN  StartsWithAt(s, c, W_experience)

NoMatch == [matched |-> FALSE, group |-> 0]

\* (\d+)\+?\s*<YearsTail> matched at index i; group is int(match.group(1))
MatchYears(s, i, relevant) ==
    LET d == DigitsEnd(s, i)
    IN  IF d > i /\ YearsTail(s, SkipWS(s, OptWord(s, d, W_plus)), relevant)
        THEN [matched |-> TRUE, group |-> DigitsValue(s, i, d - 1)]
        ELSE NoMatch

\* experience_patterns[0]
Pattern1(s, i) == MatchYears(s, i, FALSE)

\* experience_patterns[1]
Pattern2(s, i) == MatchYears(s, i, TRUE)

\* experience_patterns[2]: minimum\s*(\d+)\s*years?
Pattern3(s, i) ==
    IF StartsWithAt(s, i, W_minimum)
    THEN LET a == SkipWS(s, i + Len(W_minimum))
             d == DigitsEnd(s, a)
         IN  IF d > a /\ StartsWithAt(s, SkipWS(s, d), W_year)
             THEN [matched |-> TRUE, group |-> DigitsValue(s, a, d - 1)]
             ELSE NoMatch
    ELSE NoMatch

\* experience_patterns[n - 1] matched at index i
PatternAt(n, s, i) ==
    CASE n = 1 -> Pattern1(s, i)
      [] n = 2 -> Pattern2(s, i)
      [] n = 3 -> Pattern3(s, i)

\* re.search(experience_patterns[n - 1], s): the match at the leftmost index
\* where the pattern matches
ReSearch(n, s) ==
    LET hits == {i \in 1..Len(s) : PatternAt(n, s, i).matched}
    IN  IF hits = {} THEN NoMatch
        ELSE PatternAt(n, s, CHOOSE i \in hits : \A j \in hits : i <= j)

\* one turn of the loop over experience_patterns
StepYears(years, m) == IF m.matched THEN Max2(years, m.group) ELSE years

\* required_experience_years after the loop over experience_patterns
RequiredExperienceYears(text) ==
    LET s == Lower(text)
    IN  StepYears(StepYears(StepYears(0, ReSearch(1, s)), ReSearch(2, s)), ReSearch(3, s))

education_keywords == <<W_bachelor, W_master, W_phd, W_degree, W_university, W_college>>

senior_keywords == <<W_senior, W_lead, W_principal, W_architect, W_manager>>

\* any(keyword in text for keyword in keywords)
AnyKeyword(keywords, text) == \E k \in 1..Len(keywords) : Contains(text, keywords[k])

\* _extract_job_requirements, where `listed` is the list that
\* list(required_skills) returned
ExtractJobRequirements(text, listed) ==
    [required_skills |-> listed,
     required_experience_years |-> RequiredExperienceYears(text),
     requires_degree |-> AnyKeyword(education_keywords, Lower(text)),
     is_senior_role |-> AnyKeyword(senior_keywords, Lower(text)),
     job_description_text |-> text]

-----------------------------------------------------------------------------
(* cv_schema.py *)

HasKeys(d, keys) == keys \subseteq DOMAIN d

\* d.get(key, default) on a dictionary
Get(d, key, default) == IF key \in DOMAIN d THEN d[key] ELSE default

\* Skill(**d) validates: name and category are required
SkillValid(d) == HasKeys(d, {"name", "category"})

\* Experience(**d) validates: description has a default, the rest is required
ExperienceValid(d) == HasKeys(d, {"job_title", "company", "start_date", "end_date"})

\* Education(**d) validates
EducationValid(d) == HasKeys(d, {"degree", "institution", "graduation_year"})

\* CVData(**d) validates: the lists have defaults, every entry must validate
CVDataValid(d) ==
    /\ HasKeys(d, {"filename", "raw_text", "personal_info", "parsed_date"})
    /\ \A s \in Range(Get(d, "skills", <<>>)) : SkillValid(s)
    /\ \A e \in Range(Get(d, "experience", <<>>)) : ExperienceValid(e)
    /\ \A e \in Range(Get(d, "education", <<>>)) : EducationValid(e)

\* the object CVData(**d) builds, defaults filled in (fields the matcher reads)
CVData(d) ==
    [filename |-> d.filename,
     personal_info |-> [name |-> Get(d.personal_info, "name", <<>>)],
     skills |-> ListOf([i \in DOMAIN Get(d, "skills", <<>>) |->
                    [name |-> d.skills[i].name, category |-> d.skills[i].category]]),
     experience |-> ListOf([i \in DOMAIN Get(d, "experience", <<>>) |->
                    [job_title |-> d.experience[i].job_title,
                     company |-> d.experience[i].company,
                     start_date |-> d.experience[i].start_date,
                     end_date |-> d.experience[i].end_date,
                     description |-> Get(d.experience[i], "description", <<>>)]]),
     education |-> ListOf([i \in DOMAIN Get(d, "education", <<>>) |->
                    [degree |-> d.education[i].degree]])]

RECURSIVE BeforeSlash(_)
\* s.split('/')[0]
BeforeSlash(s) ==
    IF s = <<>> \/ Head(s) = "/" THEN <<>> ELSE <<Head(s)>> \o BeforeSlash(Tail(s))

\* int(date.split('/')[0] if '/' in date else date)
DateYear(date) == ParseInt(IF Contains(date, W_slash) THEN BeforeSlash(date) ELSE date)

\* Experience.get_duration_years; year is datetime.now().year
GetDurationYears(exp, year) ==
    LET start == DateYear(exp.start_date)
        open == Lower(exp.end_date) \in {W_present, W_current}
        end == IF open THEN [ok |-> TRUE, value |-> year] ELSE DateYear(exp.end_date)
    IN  IF start.ok /\ end.ok
        THEN Max2(0, end.value - start.value)
        ELSE 0

RECURSIVE SumDurations(_, _)
SumDurations(exps, year) ==
    IF exps = <<>> THEN 0
    ELSE GetDurationYears(Head(exps), year) + SumDurations(Tail(exps), year)

\* CVData.get_total_experience_years
GetTotalExperienceYears(cv, year) == SumDurations(cv.experience, year)

-----------------------------------------------------------------------------
(* The embedding model: SentenceTransformer.encode and cosine_similarity.   *)
(* A provider p says for which texts encode raises (all of them when it is  *)
(* down) and gives the cosine of the texts it relates; unrelated texts get  *)
(* p.other.                                                                 *)

EncodeRaises(p, text) == p.down \/ text \in p.bad

CosineSimilarity(p, a, b) ==
    IF a = b THEN Rat(1, 1)
    ELSE IF \E t \in p.table : {t.a, t.b} = {a, b}
         THEN (CHOOSE t \in p.table : {t.a, t.b} = {a, b}).cos
         ELSE p.other

-----------------------------------------------------------------------------
(* JobMatcher._calculate_skill_match *)

\* an exception left the function
Raised == [raised |-> TRUE]

RECURSIVE DirectMatches(_, _)
\* the loop "Direct skill matches"
DirectMatches(required, candidate_skills) ==
    IF required = <<>> THEN <<>>
    ELSE (IF InList(Head(required), candidate_skills) THEN <<Head(required)>> ELSE <<>>)
            \o DirectMatches(Tail(required), candidate_skills)

\* a faulty variant of OverThreshold: similarity >= 0.7
OverThreshold_Inclusive(similarity) == RLe(Rat(7, 10), similarity)

\* similarity > 0.7
OverThreshold(similarity) == RLt(Rat(7, 10), similarity)

RECURSIVE SemanticInner_Reuse(_, _, _, _)
\* a faulty variant of SemanticInner: candidate skills already matched are
\* compared again
SemanticInner_Reuse(p, req_skill, candidate_skills, matched) ==
    IF candidate_skills = <<>> THEN [raised |-> FALSE, matched |-> matched]
    ELSE LET c == Head(candidate_skills)
         IN  IF EncodeRaises(p, c) THEN Raised
             ELSE IF OverThreshold(CosineSimilarity(p, req_skill, c))
                  THEN [raised |-> FALSE, matched |-> Append(matched, c)]
                  ELSE SemanticInner_Reuse(p, req_skill, Tail(candidate_skills), matched)

RECURSIVE SemanticInner(_, _, _, _)
\* the inner loop over candidate_skills for one required skill
SemanticInner(p, req_skill, candidate_skills, matched) ==
    IF candidate_skills = <<>> THEN [raised |-> FALSE, matched |-> matched]
    ELSE LET c == Head(candidate_skills)
         IN  IF InList(c, matched)
             THEN SemanticInner(p, req_skill, Tail(candidate_skills), matched)
             ELSE IF EncodeRaises(p, c) THEN Raised
             ELSE IF OverThreshold(CosineSimilarity(p, req_skill, c))
                  THEN [raised |-> FALSE, matched |-> Append(matched, c)]
                  ELSE SemanticInner(p, req_skill, Tail(candidate_skills), matched)

RECURSIVE SemanticOuter(_, _, _, _)
\* the loop over required_skills of the semantic step
SemanticOuter(p, required, candidate_skills, matched) ==
    IF required = <<>> THEN [raised |-> FALSE, matched |-> matched]
    ELSE IF InList(Head(required), matched)
         THEN SemanticOuter(p, Tail(required), candidate_skills, matched)
         ELSE IF EncodeRaises(p, Head(required)) THEN Raised
         ELSE LET r == SemanticInner(p, Head(required), candidate_skills, matched)
              IN  IF r.raised THEN Raised
                  ELSE SemanticOuter(p, Tail(required), candidate_skills, r.matched)

\* a faulty variant of SkillScore: the bonus is not clamped
SkillScore_NoClamp(matched, required, candidate_skills) ==
    IF required = <<>> THEN Rat(5, 10)
    ELSE LET base == Rat(Len(matched), Len(required))
         IN  IF Len(candidate_skills) > Len(required)
             THEN RMul(base, Rat(11, 10))
             ELSE base

\* a faulty variant of SkillScore: the bonus also with as many skills as required
SkillScore_BonusOnEqual(matched, required, candidate_skills) ==
    IF required = <<>> THEN Rat(5, 10)
    ELSE LET base == Rat(Len(matched), Len(required))
         IN  IF Len(candidate_skills) >= Len(required)
             THEN RMin(Rat(1, 1), RMul(base, Rat(11, 10)))
             ELSE base

\* the block "Calculate score"
SkillScore(matched, required, candidate_skills) ==
    IF required = <<>> THEN Rat(5, 10)
    ELSE LET base == Rat(Len(matched), Len(required))
         IN  IF Len(candidate_skills) > Len(required)
             THEN RMin(Rat(1, 1), RMul(base, Rat(11, 10)))
             ELSE base

\* a faulty variant of CalculateSkillMatch: no required skills score 0
CalculateSkillMatch_NoNeutral(p, cv, requirements) ==
    LET required == requirements.required_skills
        candidate_skills == ListOf([i \in DOMAIN cv.skills |-> Lower(cv.skills[i].name)])
        direct == DirectMatches(required, candidate_skills)
        sem == IF Len(direct) < Len(required)
               THEN SemanticOuter(p, required, candidate_skills, direct)
               ELSE [raised |-> FALSE, matched |-> direct]
    IN  IF required = <<>>
        THEN [raised |-> FALSE, score |-> Rat(0, 10), matched_skills |-> <<>>]
        ELSE IF sem.raised THEN Raised
        ELSE [raised |-> FALSE,
              score |-> SkillScore(sem.matched, required, candidate_skills),
              matched_skills |-> sem.matched]

\* _calculate_skill_match with embedding model p
CalculateSkillMatch(p, cv, requirements) ==
    LET required == requirements.required_skills
        candidate_skills == ListOf([i \in DOMAIN cv.skills |-> Lower(cv.skills[i].name)])
        direct == DirectMatches(required, candidate_skills)
        sem == IF Len(direct) < Len(required)
               THEN SemanticOuter(p, required, candidate_skills, direct)
               ELSE [raised |-> FALSE, matched |-> direct]
    IN  IF required = <<>>
        THEN [raised |-> FALSE, score |-> Rat(5, 10), matched_skills |-> <<>>]
        ELSE IF sem.raised THEN Raised
        ELSE [raised |-> FALSE,
              score |-> SkillScore(sem.matched, required, candidate_skills),
              matched_skills |-> sem.matched]

-----------------------------------------------------------------------------
(* JobMatcher._calculate_experience_match *)

W_space == <<" ">>

W_at == <<" ","a","t"," ">>

W_Unknown == <<"U","n","k","n","o","w","n">>

RECURSIVE RelevanceScore(_, _)
\* relevance_score after the loop over job_desc_lower.split()
RelevanceScore(words, exp_text) ==
    IF words = <<>> THEN 0
    ELSE (IF Len(Head(words)) > 3 /\ Contains(exp_text, Head(words)) THEN 1 ELSE 0)
            + RelevanceScore(Tail(words), exp_text)

RECURSIVE RelevantExperience(_, _)
\* relevant_experience after the loop over cv_data.experience
RelevantExperience(exps, words) ==
    IF exps = <<>> THEN <<>>
    ELSE LET exp == Head(exps)
             exp_text == Lower(exp.job_title \o W_space \o exp.description)
         IN  (IF RelevanceScore(words, exp_text) > 0
              THEN <<exp.job_title \o W_at \o exp.company>>
              ELSE <<>>) \o RelevantExperience(Tail(exps), words)

\* a faulty variant of BaseExperienceScore: the quotient is cut to a whole number
BaseExperienceScore_Floor(candidate_years, required_years) ==
    IF required_years = 0
    THEN (IF candidate_years > 0 THEN Rat(7, 10) ELSE Rat(3, 10))
    ELSE RMin(Rat(1, 1), Rat(candidate_years \div required_years, 1))

\* the block "Calculate experience score"
BaseExperienceScore(candidate_years, required_years) ==
    IF required_years = 0
    THEN (IF candidate_years > 0 THEN Rat(7, 10) ELSE Rat(3, 10))
    ELSE IF candidate_years >= required_years
         THEN RMin(Rat(1, 1), Rat(candidate_years, required_years))
         ELSE Rat(candidate_years, required_years)

\* a faulty variant of SeniorAdjust: the comparison is turned around
SeniorAdjust_FromThree(score, is_senior_role, candidate_years) ==
    IF is_senior_role /\ candidate_years >= 3 THEN RMul(score, Rat(7, 10)) ELSE score

\* a faulty variant of SeniorAdjust: three years are penalised too
SeniorAdjust_Inclusive(score, is_senior_role, candidate_years) ==
    IF is_senior_role /\ candidate_years <= 3 THEN RMul(score, Rat(7, 10)) ELSE score

\* the block "Adjust for senior roles"
SeniorAdjust(score, is_senior_role, candidate_years) ==
    IF is_senior_role /\ candidate_years < 3 THEN RMul(score, Rat(7, 10)) ELSE score

\* a faulty variant of ExperienceScore: the senior adjustment comes before the cut at 1.0
ExperienceScore_AdjustFirst(candidate_years, requirements) ==
    IF requirements.required_experience_years = 0
    THEN SeniorAdjust(BaseExperienceScore(candidate_years, 0),
                      requirements.is_senior_role, candidate_years)
    ELSE RMin(Rat(1, 1),
              SeniorAdjust(Rat(candidate_years, requirements.required_experience_years),
                           requirements.is_senior_role, candidate_years))

\* the experience score for a candidate with candidate_years of experience
ExperienceScore(candidate_years, requirements) ==
    SeniorAdjust(BaseExperienceScore(candidate_years,
                                     requirements.required_experience_years),
                 requirements.is_senior_role, candidate_years)

\* _calculate_experience_match; year is datetime.now().year
CalculateExperienceMatch(cv, requirements, text, year) ==
    [score |-> ExperienceScore(GetTotalExperienceYears(cv, year), requirements),
     relevant_experience |-> RelevantExperience(cv.experience, Split(Lower(text)))]

-----------------------------------------------------------------------------
(* JobMatcher._calculate_education_match *)

\* a faulty variant of DegreeLevel: the keywords are looked for in the degree as written
DegreeLevel_CaseSensitive(degree) ==
    IF Contains(degree, W_phd) \/ Contains(degree, W_doctorate) THEN 4
    ELSE IF Contains(degree, W_master) THEN 3
    ELSE IF Contains(degree, W_bachelor) THEN 2
    ELSE 1

\* the level appended to degree_levels for one education entry
DegreeLevel(degree) ==
    LET degree_lower == Lower(degree)
    IN  IF Contains(degree_lower, W_phd) \/ Contains(degree_lower, W_doctorate) THEN 4
        ELSE IF Contains(degree_lower, W_master) THEN 3
        ELSE IF Contains(degree_lower, W_bachelor) THEN 2
        ELSE 1

RECURSIVE MaxOf(_)
\* max(lst) of a non-empty list of numbers
MaxOf(lst) == IF Len(lst) = 1 THEN lst[1] ELSE Max2(lst[1], MaxOf(Tail(lst)))

\* a faulty variant of CalculateEducationMatch: without an education entry the
\* score is low even when no degree is required
CalculateEducationMatch_Strict(cv, requirements) ==
    IF Len(cv.education) = 0 THEN Rat(3, 10)
    ELSE IF ~requirements.requires_degree THEN Rat(7, 10)
    ELSE LET degree_levels == ListOf([i \in DOMAIN cv.education |->
                                   DegreeLevel(cv.education[i].degree)])
         IN  RMin(Rat(1, 1), Rat(MaxOf(degree_levels), 2))

\* _calculate_education_match
CalculateEducationMatch(cv, requirements) ==
    IF ~requirements.requires_degree THEN Rat(7, 10)
    ELSE IF Len(cv.education) > 0
         THEN LET degree_levels == ListOf([i \in DOMAIN cv.education |->
                                        DegreeLevel(cv.education[i].degree)])
                  max_degree_level == IF degree_levels # <<>> THEN MaxOf(degree_levels) ELSE 1
              IN  RMin(Rat(1, 1), Rat(max_degree_level, 2))
         ELSE Rat(3, 10)

-----------------------------------------------------------------------------
(* JobMatcher._calculate_matching_scores *)

\* a faulty variant of OverallScore: the experience and education weights exchanged
OverallScore_SwappedWeights(skill_score, experience_score, education_score) ==
    RAdd(RAdd(RMul(skill_score, weights.skills),
              RMul(experience_score, weights.education)),
         RMul(education_score, weights.experience))

\* the expression "Overall weighted score"
OverallScore(skill_score, experience_score, education_score) ==
    RAdd(RAdd(RMul(skill_score, weights.skills),
              RMul(experience_score, weights.experience)),
         RMul(education_score, weights.education))

\* _calculate_matching_scores with embedding model p in year `year`
CalculateMatchingScores(p, cv, requirements, text, year) ==
    LET skill == CalculateSkillMatch(p, cv, requirements)
        experience == CalculateExperienceMatch(cv, requirements, text, year)
        education_score == CalculateEducationMatch(cv, requirements)
    IN  IF skill.raised THEN Raised
        ELSE [raised |-> FALSE,
              overall |-> OverallScore(skill.score, experience.score, education_score),
              skills |-> skill.score,
              experience |-> experience.score,
              education |-> education_score,
              matched_skills |-> skill.matched_skills,
              relevant_experience |-> experience.relevant_experience]

-----------------------------------------------------------------------------
(* JobMatcher._generate_explanation.  The explanation is modelled as the    *)
(* list explanation_parts: one entry per part, naming the template of the   *)
(* part and the values it interpolates.                                     *)

Part(kind, items, years, required) ==
    [kind |-> kind, items |-> items, years |-> years, required |-> required]

\* lst[:2]
FirstTwo(lst) == SubSeq(lst, 1, IF Len(lst) < 2 THEN Len(lst) ELSE 2)

RECURSIVE NotIn(_, _)
\* [x for x in lst if x not in other]
NotIn(lst, other) ==
    IF lst = <<>> THEN <<>>
    ELSE (IF InList(Head(lst), other) THEN <<>> ELSE <<Head(lst)>>) \o NotIn(Tail(lst), other)

\* a faulty variant of OverallAssessment: the scores 0.8 and 0.6 fall into the lower tier
OverallAssessment_Exclusive(overall_score) ==
    IF RLt(Rat(8, 10), overall_score) THEN <<Part("excellent", <<>>, 0, 0)>>
    ELSE IF RLt(Rat(6, 10), overall_score) THEN <<Part("good", <<>>, 0, 0)>>
    ELSE <<Part("limited", <<>>, 0, 0)>>

\* the block "Overall assessment"
OverallAssessment(overall_score) ==
    IF RLe(Rat(8, 10), overall_score) THEN <<Part("excellent", <<>>, 0, 0)>>
    ELSE IF RLe(Rat(6, 10), overall_score) THEN <<Part("good", <<>>, 0, 0)>>
    ELSE <<Part("limited", <<>>, 0, 0)>>

GenerateExplanation(cv, requirements, sc, year) ==
    LET candidate_years == GetTotalExperienceYears(cv, year)
        required_years == requirements.required_experience_years
        tier == OverallAssessment(sc.overall)
        matching == IF sc.matched_skills # <<>>
                    THEN <<Part("matching_skills", sc.matched_skills, 0, 0)>> ELSE <<>>
        missing == IF Len(sc.matched_skills) < Len(requirements.required_skills)
                   THEN <<Part("missing_skills",
                               NotIn(requirements.required_skills, sc.matched_skills), 0, 0)>>
                   ELSE <<>>
        experience == IF required_years > 0
                      THEN (IF candidate_years >= required_years
                            THEN <<Part("experience_met", <<>>, candidate_years, required_years)>>
                            ELSE <<Part("experience_short", <<>>, candidate_years, required_years)>>)
                      ELSE <<>>
        relevant == IF sc.relevant_experience # <<>>
                    THEN <<Part("relevant_experience", FirstTwo(sc.relevant_experience), 0, 0)>>
                    ELSE <<>>
        education == IF requirements.requires_degree
                     THEN (IF cv.education # <<>>
                           THEN <<Part("education",
                                       ListOf([i \in DOMAIN cv.education |->
                                                  cv.education[i].degree]),
                                       0, 0)>>
                           ELSE <<Part("no_education", <<>>, 0, 0)>>)
                     ELSE <<>>
    IN  tier \o matching \o missing \o experience \o relevant \o education

-----------------------------------------------------------------------------
(* JobMatcher.find_matches *)

\* a faulty variant of ProcessCV: the relevant experience is kept only for
\* the explanation
ProcessCV_ExplainedOnly(p, d, i, requirements, text, incl, year) ==
    IF ~CVDataValid(d) THEN Raised
    ELSE LET cv == CVData(d)
             sc == CalculateMatchingScores(p, cv, requirements, text, year)
         IN  IF sc.raised THEN Raised
             ELSE [raised |-> FALSE,
                   cv_filename |-> cv.filename,
                   candidate_name |-> IF cv.personal_info.name # <<>>
                                      THEN cv.personal_info.name ELSE W_Unknown,
                   overall_score |-> sc.overall,
                   skill_match_score |-> sc.skills,
                   experience_match_score |-> sc.experience,
                   education_match_score |-> sc.education,
                   explanation |-> IF incl THEN GenerateExplanation(cv, requirements, sc, year)
                                   ELSE <<>>,
                   matched_skills |-> sc.matched_skills,
                   relevant_experience |-> IF incl THEN sc.relevant_experience ELSE <<>>,
                   cv_data |-> d,
                   input_index |-> i]

\* a faulty variant of ProcessCV: the name is taken as it is, empty or not
ProcessCV_NameAsIs(p, d, i, requirements, text, incl, year) ==
    IF ~CVDataValid(d) THEN Raised
    ELSE LET cv == CVData(d)
             sc == CalculateMatchingScores(p, cv, requirements, text, year)
         IN  IF sc.raised THEN Raised
             ELSE [raised |-> FALSE,
                   cv_filename |-> cv.filename,
                   candidate_name |-> cv.personal_info.name,
                   overall_score |-> sc.overall,
                   skill_match_score |-> sc.skills,
                   experience_match_score |-> sc.experience,
                   education_match_score |-> sc.education,
                   explanation |-> IF incl THEN GenerateExplanation(cv, requirements, sc, year)
                                   ELSE <<>>,
                   matched_skills |-> sc.matched_skills,
                   relevant_experience |-> sc.relevant_experience,
                   cv_data |-> d,
                   input_index |-> i]

\* the body of the try block for the record at position i of the list: the
\* MatchResult, or Raised when an exception was caught.  input_index is not a
\* field of MatchResult: it records the position the result was built from.
ProcessCV(p, d, i, requirements, text, incl, year) ==
    IF ~CVDataValid(d) THEN Raised
    ELSE LET cv == CVData(d)
             sc == CalculateMatchingScores(p, cv, requirements, text, year)
         IN  IF sc.raised THEN Raised
             ELSE [raised |-> FALSE,
                   cv_filename |-> cv.filename,
                   candidate_name |-> IF cv.personal_info.name # <<>>
                                      THEN cv.personal_info.name ELSE W_Unknown,
                   overall_score |-> sc.overall,
                   skill_match_score |-> sc.skills,
                   experience_match_score |-> sc.experience,
                   education_match_score |-> sc.education,
                   explanation |-> IF incl THEN GenerateExplanation(cv, requirements, sc, year)
                                   ELSE <<>>,
                   matched_skills |-> sc.matched_skills,
                   relevant_experience |-> sc.relevant_experience,
                   cv_data |-> d,
                   input_index |-> i]

RECURSIVE MatchLoop_Abort(_, _, _, _, _, _, _)
\* a faulty variant of MatchLoop: the first exception ends the loop
MatchLoop_Abort(p, lst, i, requirements, text, incl, year) ==
    IF i > Len(lst) THEN <<>>
    ELSE LET r == ProcessCV(p, lst[i], i, requirements, text, incl, year)
         IN  IF r.raised THEN <<>>
             ELSE <<r>> \o MatchLoop_Abort(p, lst, i + 1, requirements, text, incl, year)

RECURSIVE MatchLoop(_, _, _, _, _, _, _)
\* match_results after the loop over cv_data_list, from position i on
MatchLoop(p, lst, i, requirements, text, incl, year) ==
    IF i > Len(lst) THEN <<>>
    ELSE (CHOOSE appended \in {IF r.raised THEN <<>> ELSE <<r>> :
                 r \in {ProcessCV(p, lst[i], i, requirements, text, incl, year)}} : TRUE)
            \o MatchLoop(p, lst, i + 1, requirements, text, incl, year)

RECURSIVE InsertDesc_Unstable(_, _)
\* a faulty variant of InsertDesc: x goes in front of the entries with its score
InsertDesc_Unstable(sorted, x) ==
    IF sorted = <<>> THEN <<x>>
    ELSE IF RLe(Head(sorted).overall_score, x.overall_score)
         THEN <<x>> \o sorted
         ELSE <<Head(sorted)>> \o InsertDesc_Unstable(Tail(sorted), x)

RECURSIVE InsertDesc(_, _)
\* x put into the descending list after every entry whose score is not smaller
InsertDesc(sorted, x) ==
    IF sorted = <<>> THEN <<x>>
    ELSE IF RLt(Head(sorted).overall_score, x.overall_score)
         THEN <<x>> \o sorted
         ELSE <<Head(sorted)>> \o InsertDesc(Tail(sorted), x)

RECURSIVE SortDesc(_)
\* list.sort(key=lambda x: x.overall_score, reverse=True): stable, entries
\* with equal keys keep their order
SortDesc(lst) ==
    IF lst = <<>> THEN <<>>
    ELSE InsertDesc(SortDesc(SubSeq(lst, 1, Len(lst) - 1)), lst[Len(lst)])

\* a faulty variant of SliceTo: lst[-k:], the last k entries
SliceTo_Last(lst, k) ==
    LET n == Len(lst)
        start == IF k <= 0 THEN 1 ELSE IF k > n THEN 1 ELSE n - k + 1
    IN  SubSeq(lst, start, n)

\* lst[:k]
SliceTo(lst, k) ==
    LET n == Len(lst)
        stop == IF k < 0 THEN Max2(0, n + k) ELSE IF k > n THEN n ELSE k
    IN  SubSeq(lst, 1, stop)

\* find_matches, given the extracted requirements
FindMatchesResult(p, requirements, text, lst, k, incl, year) ==
    IF lst = <<>> THEN <<>>
    ELSE SliceTo(SortDesc(MatchLoop(p, lst, 1, requirements, text, incl, year)), k)

-----------------------------------------------------------------------------
(* Inputs: the job descriptions, candidate dictionaries and embedding models *)
(* the operations are driven with.                                          *)

\* the longest list of candidates passed to find_matches
MaxCVs == 2

JobEmpty == <<>>

JobSenior == <<"S","e","n","i","o","r"," ","P","y","t","h","o","n"," ","d","e","v"," ","5","+"," ","y","e","a","r","s"," ","e","x","p","e","r","i","e","n","c","e"," ","d","e","g","r","e","e">>

JobWeb == <<"J","a","v","a","S","c","r","i","p","t"," ","e","n","g","i","n","e","e","r">>

JobPool == {JobEmpty, JobSenior, JobWeb}

\* python and git, six years, a bachelor
CVAlice ==
    [filename |-> <<"a","l","i","c","e",".","p","d","f">>,
     raw_text |-> <<"c","v">>,
     personal_info |-> [name |-> <<"A","l","i","c","e">>],
     skills |-> <<
         [name |-> <<"P","y","t","h","o","n">>, category |-> <<"T","e","c","h","n","i","c","a","l">>],
         [name |-> <<"G","i","t">>, category |-> <<"T","e","c","h","n","i","c","a","l">>] >>,
     experience |-> <<
         [job_title |-> <<"P","y","t","h","o","n"," ","D","e","v","e","l","o","p","e","r">>, company |-> <<"A","c","m","e">>,
           start_date |-> <<"2","0","1","5">>, end_date |-> <<"2","0","2","1">>,
           description |-> <<"B","u","i","l","t"," ","p","y","t","h","o","n"," ","s","e","r","v","i","c","e","s">>] >>,
     education |-> <<
         [degree |-> <<"B","a","c","h","e","l","o","r"," ","o","f"," ","S","c","i","e","n","c","e">>, institution |-> <<"M","I","T">>, graduation_year |-> <<"2","0","1","4">>] >>,
     parsed_date |-> <<"2","0","2","6">>]

\* scores like CVAlice for every job of the pool
CVBob ==
    [filename |-> <<"b","o","b",".","p","d","f">>,
     raw_text |-> <<"c","v">>,
     personal_info |-> [name |-> <<"B","o","b">>],
     skills |-> <<
         [name |-> <<"p","y","t","h","o","n">>, category |-> <<"T","e","c","h","n","i","c","a","l">>],
         [name |-> <<"D","o","c","k","e","r">>, category |-> <<"T","e","c","h","n","i","c","a","l">>] >>,
     experience |-> <<
         [job_title |-> <<"E","n","g","i","n","e","e","r">>, company |-> <<"I","n","i","t","e","c","h">>,
           start_date |-> <<"2","0","1","6">>, end_date |-> <<"2","0","2","2">>] >>,
     education |-> <<
         [degree |-> <<"B","a","c","h","e","l","o","r"," ","o","f"," ","A","r","t","s">>, institution |-> <<"U","C","L">>, graduation_year |-> <<"2","0","1","5">>] >>,
     parsed_date |-> <<"2","0","2","6">>]

\* no name, skills that match only semantically, no experience, no education
CVCarol ==
    [filename |-> <<"c","a","r","o","l",".","d","o","c","x">>,
     raw_text |-> <<"c","v">>,
     personal_info |-> [name |-> <<>>],
     skills |-> <<
         [name |-> <<"J","S">>, category |-> <<"T","e","c","h","n","i","c","a","l">>],
         [name |-> <<"T","y","p","e","S","c","r","i","p","t">>, category |-> <<"T","e","c","h","n","i","c","a","l">>] >>,
     experience |-> <<>>,
     education |-> <<>>,
     parsed_date |-> <<"2","0","2","6">>]

\* two years up to now, no education
CVErin ==
    [filename |-> <<"e","r","i","n",".","p","d","f">>,
     raw_text |-> <<"c","v">>,
     personal_info |-> [name |-> <<"E","r","i","n">>],
     skills |-> <<
         [name |-> <<"P","y","t","h","o","n">>, category |-> <<"T","e","c","h","n","i","c","a","l">>] >>,
     experience |-> <<
         [job_title |-> <<"P","y","t","h","o","n"," ","D","e","v","e","l","o","p","e","r">>, company |-> <<"H","o","o","l","i">>,
           start_date |-> <<"2","0","2","4">>, end_date |-> <<"P","r","e","s","e","n","t">>] >>,
     education |-> <<>>,
     parsed_date |-> <<"2","0","2","6">>]

\* malformed: a skill without its category
CVDave ==
    [filename |-> <<"d","a","v","e",".","t","x","t">>,
     raw_text |-> <<"c","v">>,
     personal_info |-> [name |-> <<"D","a","v","e">>],
     skills |-> <<
         [name |-> <<"P","y","t","h","o","n">>] >>,
     experience |-> <<>>,
     education |-> <<>>,
     parsed_date |-> <<"2","0","2","6">>]

CVPool == {CVAlice, CVBob, CVCarol, CVDave, CVErin}

\* the lists of at most n elements of S
SeqsUpTo(S, n) == UNION {[1..m -> S] : m \in 0..n}

CVLists == SeqsUpTo(CVPool, MaxCVs)

TopKs == {-1, 0, 1, 2, 5}

CurrentYears == {2026}

T_js == <<"j","s">>

T_typescript == <<"t","y","p","e","s","c","r","i","p","t">>

T_java == <<"j","a","v","a">>

T_javascript == <<"j","a","v","a","s","c","r","i","p","t">>

T_python == <<"p","y","t","h","o","n">>

SimilarityTable ==
    {[a |-> T_javascript, b |-> T_js, cos |-> Rat(85, 100)],
     [a |-> T_java, b |-> T_js, cos |-> Rat(80, 100)],
     [a |-> T_javascript, b |-> T_typescript, cos |-> Rat(75, 100)],
     [a |-> T_java, b |-> T_typescript, cos |-> Rat(70, 100)]}

\* the model loads and answers
ProviderUp == [down |-> FALSE, bad |-> {}, table |-> SimilarityTable, other |-> Rat(2, 10)]

\* every encode call raises
ProviderDown == [down |-> TRUE, bad |-> {}, table |-> SimilarityTable, other |-> Rat(2, 10)]

ProviderPool == {ProviderUp, ProviderDown}

NoRequirements ==
    [required_skills |-> <<>>, required_experience_years |-> 0,
     requires_degree |-> FALSE, is_senior_role |-> FALSE, job_description_text |-> <<>>]

NoScores == [raised |-> FALSE]

-----------------------------------------------------------------------------
(* The matcher driven through find_matches *)

\* a new matcher, before a call: the caller holds its list of candidates
Idle ==
    /\ skill_categories = InitSkillCategories
    /\ weights = InitWeights
    /\ job_description = <<>>
    /\ top_k = 5
    /\ include_explanations = TRUE
    /\ provider = ProviderUp
    /\ now_year \in CurrentYears
    /\ job_requirements = NoRequirements
    /\ scores = NoScores
    /\ ret = <<>>
    /\ exported = <<>>
    /\ total_years = 0
    /\ job_descriptions = <<>>
    /\ pc = "init"

Init ==
    /\ cv_data_list \in CVLists
    /\ Idle

\* a faulty variant of FindMatches: the records are taken out of the caller's list
FindMatches_Consuming(text, requirements, k, incl, p, year) ==
    /\ job_description' = text
    /\ top_k' = k
    /\ include_explanations' = incl
    /\ provider' = p
    /\ now_year' = year
    /\ IF cv_data_list = <<>>
       THEN /\ job_requirements' = NoRequirements
            /\ ret' = <<>>
       ELSE /\ job_requirements' = requirements
            /\ ret' = FindMatchesResult(p, requirements, text, cv_data_list, k, incl, year)
    /\ cv_data_list' = <<>>
    /\ pc' = "find_matches"
    /\ UNCHANGED <<skill_categories, weights, scores, exported, total_years,
                   job_descriptions>>

\* a call find_matches(text, cv_data_list, k, incl) with embedding model p in
\* year `year`; `requirements` is what _extract_job_requirements(text) returns
FindMatches(text, requirements, k, incl, p, year) ==
    /\ job_description' = text
    /\ top_k' = k
    /\ include_explanations' = incl
    /\ provider' = p
    /\ now_year' = year
    /\ IF cv_data_list = <<>>
       THEN /\ job_requirements' = NoRequirements
            /\ ret' = <<>>
       ELSE /\ job_requirements' = requirements
            /\ ret' = FindMatchesResult(p, requirements, text, cv_data_list, k, incl, year)
    /\ pc' = "find_matches"
    /\ UNCHANGED <<skill_categories, weights, cv_data_list, scores, exported, total_years,
                   job_descriptions>>

\* one request: a call on the new matcher
Request ==
    /\ pc = "init"
    /\ \E text \in JobPool :
        \E listed \in ListsOfSet(RequiredSkillSet(text)) :
          LET requirements == ExtractJobRequirements(text, listed)
          IN  \E k \in TopKs, incl \in BOOLEAN, p \in ProviderPool, year \in CurrentYears :
                FindMatches(text, requirements, k, incl, p, year)

\* the caller drops the result; the next request builds its matcher anew
NewRequest ==
    /\ pc = "find_matches"
    /\ skill_categories' = InitSkillCategories
    /\ weights' = InitWeights
    /\ job_description' = <<>>
    /\ top_k' = 5
    /\ include_explanations' = TRUE
    /\ provider' = ProviderUp
    /\ now_year' \in CurrentYears
    /\ job_requirements' = NoRequirements
    /\ scores' = NoScores
    /\ ret' = <<>>
    /\ exported' = <<>>
    /\ total_years' = 0
    /\ job_descriptions' = <<>>
    /\ pc' = "init"
    /\ UNCHANGED cv_data_list

Next ==
    \/ Request
    \/ NewRequest

Spec == Init /\ [][Next]_vars

-----------------------------------------------------------------------------
(* _extract_job_requirements driven on its own *)

\* the most phrases a job description is put together from
MaxPhrases == 3

PhraseThree == <<"3"," ","y","e","a","r","s"," ","e","x","p","e","r","i","e","n","c","e">>

PhraseSeven == <<"7","+"," ","y","e","a","r","s"," ","o","f"," ","e","x","p","e","r","i","e","n","c","e">>

PhraseMinimum == <<"M","i","n","i","m","u","m"," ","5"," ","y","e","a","r","s">>

PhraseRelevant == <<"2"," ","y","e","a","r"," ","r","e","l","e","v","a","n","t"," ","e","x","p","e","r","i","e","n","c","e">>

PhraseRole == <<"L","e","a","d"," ","D","j","a","n","g","o"," ","d","e","v","e","l","o","p","e","r">>

PhraseDegree == <<"M","S","c"," ","d","e","g","r","e","e">>

Phrases == {PhraseThree, PhraseSeven, PhraseMinimum, PhraseRelevant, PhraseRole, PhraseDegree}

RECURSIVE JoinWith(_, _)
\* sep.join(parts)
JoinWith(sep, parts) ==
    IF parts = <<>> THEN <<>>
    ELSE IF Len(parts) = 1 THEN parts[1]
    ELSE parts[1] \o sep \o JoinWith(sep, Tail(parts))

\* the job descriptions: at most MaxPhrases phrases, one after the other
PhraseTexts == {JoinWith(W_space, ListOf(ps)) : ps \in SeqsUpTo(Phrases, MaxPhrases)}

\* a new matcher that has not been called
NewMatcher ==
    /\ skill_categories = InitSkillCategories
    /\ weights = InitWeights
    /\ top_k = 5
    /\ include_explanations = TRUE
    /\ now_year \in CurrentYears
    /\ scores = NoScores
    /\ ret = <<>>
    /\ exported = <<>>
    /\ total_years = 0
    /\ job_descriptions = <<>>
    /\ pc = "init"

InitExtract ==
    /\ NewMatcher
    /\ cv_data_list = <<>>
    /\ job_description \in PhraseTexts
    /\ provider = ProviderUp
    /\ job_requirements = NoRequirements

\* a call _extract_job_requirements(job_description)
ExtractRequirements ==
    /\ pc = "init"
    /\ \E listed \in ListsOfSet(RequiredSkillSet(job_description)) :
          job_requirements' = ExtractJobRequirements(job_description, listed)
    /\ pc' = "extracted"
    /\ UNCHANGED <<skill_categories, weights, cv_data_list, job_description, top_k,
                   include_explanations, provider, now_year, scores, ret, exported,
                   total_years, job_descriptions>>

NextExtract == ExtractRequirements

SpecExtract == InitExtract /\ [][NextExtract]_vars

-----------------------------------------------------------------------------
(* _calculate_matching_scores driven on its own, on requirements and on     *)
(* candidates put together from parts                                       *)

\* the most skills a requirement set lists
MaxRequiredSkills == 2

\* the most skills a candidate lists
MaxCandidateSkills == 2

\* the most years of experience a requirement set asks for
MaxRequiredYears == 3

\* the lists of at most n different elements of S
DistinctSeqsUpTo(S, n) ==
    {s \in SeqsUpTo(S, n) : \A i, j \in DOMAIN s : i # j => s[i] # s[j]}

ScoreRequirements ==
    {[required_skills |-> ListOf(rs), required_experience_years |-> y,
      requires_degree |-> dg, is_senior_role |-> sr, job_description_text |-> JobWeb] :
        rs \in DistinctSeqsUpTo({T_python, T_javascript}, MaxRequiredSkills),
        y \in 0..MaxRequiredYears, dg \in BOOLEAN, sr \in BOOLEAN}

SkillPython == [name |-> <<"P","y","t","h","o","n">>, category |-> <<"T","e","c","h","n","i","c","a","l">>]

SkillJS == [name |-> <<"J","S">>, category |-> <<"T","e","c","h","n","i","c","a","l">>]

\* two years up to now
ExperienceOpen ==
    [job_title |-> <<"W","e","b"," ","E","n","g","i","n","e","e","r">>, company |-> <<"A","c","m","e">>,
     start_date |-> <<"2","0","2","4">>, end_date |-> <<"P","r","e","s","e","n","t">>,
     description |-> <<"J","a","v","a","S","c","r","i","p","t"," ","a","p","p","s">>]

\* five years
ExperiencePast ==
    [job_title |-> <<"A","n","a","l","y","s","t">>, company |-> <<"I","n","i","t","e","c","h">>,
     start_date |-> <<"2","0","1","5">>, end_date |-> <<"2","0","2","0">>,
     description |-> <<>>]

\* dates with months
ExperienceMonths ==
    [job_title |-> <<"T","e","s","t","e","r">>, company |-> <<"H","o","o","l","i">>,
     start_date |-> <<"0","3","/","2","0","1","8">>, end_date |-> <<"0","6","/","2","0","2","1">>,
     description |-> <<>>]

ExperienceLists == {<<>>, <<ExperienceOpen>>, <<ExperiencePast>>, <<ExperienceMonths>>}

EducationLists ==
    {<<>>,
     <<[degree |-> <<"D","i","p","l","o","m","a">>, institution |-> <<"C","o","l","l","e","g","e">>, graduation_year |-> <<"2","0","1","0">>]>>,
     <<[degree |-> <<"M","a","s","t","e","r"," ","o","f"," ","S","c","i","e","n","c","e">>, institution |-> <<"E","T","H">>, graduation_year |-> <<"2","0","1","2">>],
       [degree |-> <<"B","a","c","h","e","l","o","r">>, institution |-> <<"E","T","H">>, graduation_year |-> <<"2","0","1","0">>]>>}

ScoreCVs ==
    {[filename |-> <<"c","v",".","p","d","f">>, raw_text |-> <<>>,
      personal_info |-> [name |-> <<"P","a","t">>],
      skills |-> ListOf(sk), experience |-> ex, education |-> ed,
      parsed_date |-> <<"2","0","2","6">>] :
        sk \in SeqsUpTo({SkillPython, SkillJS}, MaxCandidateSkills),
        ex \in ExperienceLists, ed \in EducationLists}

InitScore ==
    /\ NewMatcher
    /\ \E d \in ScoreCVs : cv_data_list = <<d>>
    /\ job_description = JobWeb
    /\ provider \in ProviderPool
    /\ job_requirements \in ScoreRequirements

\* a call _calculate_matching_scores(CVData(**d), job_requirements, job_description)
\* on the one record d of cv_data_list
CalculateScores ==
    /\ pc = "init"
    /\ scores' = CalculateMatchingScores(provider, CVData(cv_data_list[1]),
                                         job_requirements, job_description, now_year)
    /\ pc' = "scored"
    /\ UNCHANGED <<skill_categories, weights, cv_data_list, job_description, top_k,
                   include_explanations, provider, now_year, job_requirements, ret,
                   exported, total_years, job_descriptions>>

NextScore == CalculateScores

SpecScore == InitScore /\ [][NextScore]_vars

-----------------------------------------------------------------------------
(* Properties of find_matches *)

Returned == pc = "find_matches"

\* the result the last call built, or failed to build, for position i of its list
Processed(i) ==
    ProcessCV(provider, cv_data_list[i], i, job_requirements, job_description,
              include_explanations, now_year)

\* the positions of the list whose records the last call scored without error
ScoredPositions == {i \in 1..Len(cv_data_list) : ~Processed(i).raised}

\* the positions of the list the returned results were built from
ReturnedPositions == {ret[n].input_index : n \in 1..Len(ret)}

REq(a, b) == a[1] * b[2] = b[1] * a[2]

\* o = 0.5 * s + 0.3 * e + 0.2 * d, in integers
IsWeightedSum(o, s, e, d) ==
    10 * o[1] * s[2] * e[2] * d[2]
        = o[2] * (5 * s[1] * e[2] * d[2] + 3 * e[1] * s[2] * d[2] + 2 * d[1] * s[2] * e[2])

(* C1: every MatchResult returned by find_matches has overall_score =       *)
(* 0.5 * skill_match_score + 0.3 * experience_match_score + 0.2 *           *)
(* education_match_score; the dimension scores 0.8, 0.6, 1.0 give 0.78; the *)
(* weights are 0.5, 0.3 and 0.2 at every call.                              *)
C1_OverallIsWeightedSum ==
    /\ weights = [skills |-> <<1, 2>>, experience |-> <<3, 10>>, education |-> <<1, 5>>]
    /\ OverallScore(<<4, 5>>, <<3, 5>>, <<1, 1>>) = <<39, 50>>
    /\ \A n \in 1..Len(ret) :
          IsWeightedSum(ret[n].overall_score, ret[n].skill_match_score,
                        ret[n].experience_match_score, ret[n].education_match_score)

\* a returned result whose three dimension scores are positive and differ
C1_Witness ==
    /\ Returned
    /\ \E n \in 1..Len(ret) :
          LET s == ret[n].skill_match_score
              e == ret[n].experience_match_score
              d == ret[n].education_match_score
          IN  /\ s[1] > 0 /\ e[1] > 0 /\ d[1] > 0
              /\ s # e /\ e # d /\ s # d

(* C2: the list find_matches returns is in non-increasing order of          *)
(* overall_score, and results with the same overall_score are in the order  *)
(* of their records in the input list.                                      *)
C2_StableRanking ==
    \A m, n \in 1..Len(ret) :
        m < n =>
            /\ RLe(ret[n].overall_score, ret[m].overall_score)
            /\ REq(ret[n].overall_score, ret[m].overall_score)
                  => ret[m].input_index < ret[n].input_index

\* a returned list with a tie between two different candidates
C2_Witness ==
    /\ Returned
    /\ \E m, n \in 1..Len(ret) :
          /\ m < n
          /\ REq(ret[n].overall_score, ret[m].overall_score)
          /\ ret[m].cv_filename # ret[n].cv_filename

\* what the last call built for every position of its list
AllProcessed == ListOf([i \in 1..Len(cv_data_list) |-> Processed(i)])

\* in the list `all` of processed records, the result at position i ranks
\* before the one at position j
RanksBefore(all, i, j) ==
    \/ RLt(all[j].overall_score, all[i].overall_score)
    \/ /\ REq(all[j].overall_score, all[i].overall_score)
       /\ i < j

(* C3: for top_k >= 1 find_matches returns min(top_k, number of candidates  *)
(* scored without error) results, built from distinct scored positions of   *)
(* the input, and every scored candidate left out ranks after every         *)
(* returned one in the stable descending ranking.                           *)
C3_TopK ==
    (Returned /\ top_k >= 1) =>
        LET all == AllProcessed
            scored == {i \in 1..Len(all) : ~all[i].raised}
        IN  /\ Len(ret) = IF top_k < Cardinality(scored) THEN top_k ELSE Cardinality(scored)
            /\ ReturnedPositions \subseteq scored
            /\ Cardinality(ReturnedPositions) = Len(ret)
            /\ \A n \in 1..Len(ret) : ret[n] = all[ret[n].input_index]
            /\ \A i \in ReturnedPositions, j \in scored \ ReturnedPositions :
                  RanksBefore(all, i, j)

\* a call that cuts the scored candidates down to top_k, a returned one coming
\* after one left out in the input
C3_Witness ==
    /\ Returned
    /\ top_k >= 1
    /\ top_k < Cardinality(ScoredPositions)
    /\ Len(ret) = top_k
    /\ \E i \in ReturnedPositions, j \in ScoredPositions \ ReturnedPositions : j < i

(* C4: for every top_k < 1 find_matches returns an empty list.              *)
C4_NonPositiveTopKGivesNothing ==
    (Returned /\ top_k < 1) => ret = <<>>

\* the matched skills and skill score direct matching alone gives a record
DirectOnly(d) ==
    LET cv == CVData(d)
        candidate_skills == ListOf([i \in DOMAIN cv.skills |-> Lower(cv.skills[i].name)])
        direct == DirectMatches(job_requirements.required_skills, candidate_skills)
    IN  [matched_skills |-> direct,
         score |-> SkillScore(direct, job_requirements.required_skills, candidate_skills)]

(* C9: when the similarity provider fails, every well-formed candidate is   *)
(* still scored from its direct matches and appears in the output (here:    *)
(* when top_k does not cut the list).                                       *)
C9_ProviderFailureKeepsCandidate ==
    (Returned /\ provider.down /\ top_k >= Len(cv_data_list)) =>
        \A i \in 1..Len(cv_data_list) :
            CVDataValid(cv_data_list[i]) =>
                \E n \in 1..Len(ret) :
                    /\ ret[n].input_index = i
                    /\ ret[n].matched_skills = DirectOnly(cv_data_list[i]).matched_skills
                    /\ ret[n].skill_match_score = DirectOnly(cv_data_list[i]).score

RECURSIVE Keep(_, _, _)
\* the entries of lst at the positions in `keep`, in order, from position i on
Keep(lst, keep, i) ==
    IF i > Len(lst) THEN <<>>
    ELSE (IF i \in keep THEN <<lst[i]>> ELSE <<>>) \o Keep(lst, keep, i + 1)

\* a result without the position it was built from
WithoutIndex(r) == [f \in DOMAIN r \ {"input_index"} |-> r[f]]

WithoutIndexes(results) == ListOf([n \in 1..Len(results) |-> WithoutIndex(results[n])])

(* C10: a candidate whose processing raises is left out and the batch goes  *)
(* on: the returned list is the list find_matches returns for the input     *)
(* without the failing candidates.                                          *)
C10_FailingCandidatesSkipped ==
    Returned =>
        LET scored == ScoredPositions
        IN  WithoutIndexes(ret) =
                WithoutIndexes(FindMatchesResult(provider, job_requirements, job_description,
                                                 Keep(cv_data_list, scored, 1),
                                                 top_k, include_explanations, now_year))

\* a failing candidate in front of a returned one
C10_Witness ==
    /\ Returned
    /\ \E i \in 1..Len(cv_data_list), j \in ScoredPositions :
          i < j /\ i \notin ScoredPositions /\ j \in ReturnedPositions

-----------------------------------------------------------------------------
(* Properties of the scorers *)

Scored == pc = "scored" /\ ~scores.raised

\* the scored candidate
ScoredCV == CVData(cv_data_list[1])

CandidateYears == GetTotalExperienceYears(ScoredCV, now_year)

InUnitInterval(x) == RLe(<<0, 1>>, x) /\ RLe(x, <<1, 1>>)

(* C5: the skill, experience and education scores and the overall score of  *)
(* every candidate under every requirement set lie in [0, 1].               *)
C5_ScoresInUnitInterval ==
    Scored =>
        /\ InUnitInterval(scores.skills)
        /\ InUnitInterval(scores.experience)
        /\ InUnitInterval(scores.education)
        /\ InUnitInterval(scores.overall)

\* a candidate whose bonus is clamped and whose experience score is cut by
\* the senior penalty
C5_Witness ==
    /\ Scored
    /\ job_requirements.required_skills # <<>>
    /\ Len(scores.matched_skills) = Len(job_requirements.required_skills)
    /\ Len(ScoredCV.skills) > Len(job_requirements.required_skills)
    /\ scores.skills = <<1, 1>>
    /\ job_requirements.is_senior_role
    /\ CandidateYears = 2
    /\ job_requirements.required_experience_years = 2

(* C6: with no required skills _calculate_skill_match returns the score 0.5 *)
(* and no matched skills for every candidate, and asks the embedding model  *)
(* nothing.                                                                 *)
C6_NoRequiredSkillsIsNeutral ==
    (pc = "scored" /\ job_requirements.required_skills = <<>>) =>
        /\ ~scores.raised
        /\ scores.skills = <<1, 2>>
        /\ scores.matched_skills = <<>>

\* a candidate with skills scored against no required skills while the
\* embedding model is down
C6_Witness ==
    /\ pc = "scored"
    /\ job_requirements.required_skills = <<>>
    /\ provider.down
    /\ Len(ScoredCV.skills) = 2

(* C7 as claimed: with required_experience_years = 0 the experience score   *)
(* is 0.3 or 0.7 for every candidate, senior role or not.                   *)
C7_ScoreIsFloorOrNeutral ==
    (Scored /\ job_requirements.required_experience_years = 0) =>
        scores.experience \in {<<3, 10>>, <<7, 10>>}

(* C7 as amended: with required_experience_years = 0 the experience score   *)
(* is 0.3 (no experience) or 0.7 (some), times 0.7 when the role is senior  *)
(* and the candidate has fewer than 3 years: 0.21 or 0.49 then.             *)
C7_ScoreWithSeniorPenalty ==
    (Scored /\ job_requirements.required_experience_years = 0) =>
        scores.experience =
            IF job_requirements.is_senior_role /\ CandidateYears < 3
            THEN (IF CandidateYears > 0 THEN <<49, 100>> ELSE <<21, 100>>)
            ELSE (IF CandidateYears > 0 THEN <<7, 10>> ELSE <<3, 10>>)

\* a senior role without stated years and a candidate with two years
C7_Witness ==
    /\ Scored
    /\ job_requirements.required_experience_years = 0
    /\ job_requirements.is_senior_role
    /\ CandidateYears = 2
    /\ scores.experience = <<49, 100>>

-----------------------------------------------------------------------------
(* Properties of _extract_job_requirements *)

\* the numbers of all the places where experience_patterns[n - 1] matches in s
AllGroups(n, s) ==
    {PatternAt(n, s, i).group : i \in {k \in 1..Len(s) : PatternAt(n, s, k).matched}}

\* the numbers of all the experience thresholds a job description states
AllThresholds(text) ==
    UNION {AllGroups(n, Lower(text)) : n \in 1..3}

(* C8: required_experience_years is the largest number over all the places *)
(* of the job description where an experience pattern matches, and 0 when   *)
(* there is none.                                                           *)
C8_YearsIsMaximumOfAll ==
    pc = "extracted" =>
        LET all == AllThresholds(job_description) \cup {0}
        IN  job_requirements.required_experience_years
                = CHOOSE y \in all : \A z \in all : z <= y

-----------------------------------------------------------------------------
(* Determinism of find_matches *)

(* C11: the result of find_matches is the same for every order in which    *)
(* list(required_skills) lists the required-skill set: the same scores, the *)
(* same matched-skills lists and the same ranking.                          *)
C11_SameResultForEveryOrder ==
    Returned =>
        \A listed \in ListsOfSet(RequiredSkillSet(job_description)) :
            ret = FindMatchesResult(provider,
                                    ExtractJobRequirements(job_description, listed),
                                    job_description, cv_data_list, top_k,
                                    include_explanations, now_year)

-----------------------------------------------------------------------------
(* The include_explanations flag *)

\* a result without its explanation
Unexplained(r) == [r EXCEPT !.explanation = <<>>]

(* C12: find_matches with the other value of include_explanations returns   *)
(* the same candidates in the same order with the same scores, matched      *)
(* skills and relevant experience; without the flag every explanation is    *)
(* the empty string, with it none is.                                       *)
C12_ExplanationsDoNotAffectScoring ==
    Returned =>
        LET other == FindMatchesResult(provider, job_requirements, job_description,
                                       cv_data_list, top_k, ~include_explanations, now_year)
        IN  /\ Len(other) = Len(ret)
            /\ \A n \in 1..Len(ret) :
                  /\ Unexplained(ret[n]) = Unexplained(other[n])
                  /\ (ret[n].explanation = <<>>) <=> ~include_explanations

\* two candidates ranked without explanations, the first with matched skills
\* and relevant experience
C12_Witness ==
    /\ Returned
    /\ ~include_explanations
    /\ Len(ret) = 2
    /\ ret[1].matched_skills # <<>>
    /\ ret[1].relevant_experience # <<>>

-----------------------------------------------------------------------------
(* The senior scenario *)

\* the candidate of result r has `years` years of experience and no education
CandidateOf(r, years) ==
    LET cv == CVData(r.cv_data)
    IN  GetTotalExperienceYears(cv, now_year) = years /\ cv.education = <<>>

(* C13: for a job description that asks for a senior role, 5+ years of      *)
(* experience and a degree, the requirements are 5 years, senior, degree,   *)
(* and a candidate with 2 years and no education gets the experience score  *)
(* (2/5)*0.7 = 0.28 and the education score 0.3.                            *)
C13_SeniorScenario ==
    (Returned /\ job_description = JobSenior /\ cv_data_list # <<>>) =>
        /\ job_requirements.required_experience_years = 5
        /\ job_requirements.is_senior_role
        /\ job_requirements.requires_degree
        /\ \A n \in 1..Len(ret) :
              CandidateOf(ret[n], 2) =>
                  /\ ret[n].experience_match_score = <<7, 25>>
                  /\ ret[n].education_match_score = <<3, 10>>

\* the candidate with two years and no education ranked for the senior job
C13_Witness ==
    /\ Returned
    /\ job_description = JobSenior
    /\ \E n \in 1..Len(ret) :
          /\ CandidateOf(ret[n], 2)
          /\ ret[n].experience_match_score = <<7, 25>>

-----------------------------------------------------------------------------
(* The empty job description *)

\* the positions of the records that pass the validation of CVData
ValidPositions == {i \in 1..Len(cv_data_list) : CVDataValid(cv_data_list[i])}

(* C14: for the empty job description the requirements are the defaults (no *)
(* required skills, 0 years, both booleans false) and, for top_k >= 1,      *)
(* find_matches returns a result for every valid record up to top_k, each   *)
(* with skill score 0.5, education score 0.7 and experience score 0.7 with  *)
(* some experience and 0.3 with none.                                       *)
C14_EmptyJobDescription ==
    (Returned /\ job_description = <<>> /\ cv_data_list # <<>>) =>
        /\ job_requirements = NoRequirements
        /\ top_k >= 1 =>
              Len(ret) = IF top_k < Cardinality(ValidPositions)
                         THEN top_k ELSE Cardinality(ValidPositions)
        /\ \A n \in 1..Len(ret) :
              /\ ret[n].skill_match_score = <<1, 2>>
              /\ ret[n].education_match_score = <<7, 10>>
              /\ ret[n].experience_match_score =
                     IF GetTotalExperienceYears(CVData(ret[n].cv_data), now_year) > 0
                     THEN <<7, 10>> ELSE <<3, 10>>

\* the empty job description with the embedding model down: a candidate
\* with experience and one without are both ranked
C14_Witness ==
    /\ Returned
    /\ job_description = <<>>
    /\ provider.down
    /\ Len(ret) = 2
    /\ ret[1].experience_match_score = <<7, 10>>
    /\ ret[2].experience_match_score = <<3, 10>>

-----------------------------------------------------------------------------
(* JobMatcher.export_matches_to_json: json.dumps(export_data, indent=2),    *)
(* and json.loads of the text it returns                                    *)

Quote == "\""

Backslash == "\\"

Newline == "\n"

\* the characters json.dumps writes as a backslash and a letter
ShortEscape == Quote :> Quote @@ Backslash :> Backslash @@ Newline :> "n" @@ "\t" :> "t"

\* characters outside ASCII, named by their code points: the UTF-16 code
\* units json.dumps writes for them (ensure_ascii is on by default)
CodeUnits ==
    "U+00E9" :> << <<"0","0","e","9">> >>
    @@ "U+1F7E2" :> << <<"d","8","3","d">>, <<"d","f","e","2">> >>

\* one character inside a JSON string
EscapeChar(c) ==
    IF c \in DOMAIN ShortEscape THEN <<Backslash, ShortEscape[c]>>
    ELSE IF c \in DOMAIN CodeUnits
         THEN Concat(ListOf([i \in DOMAIN CodeUnits[c] |-> <<Backslash, "u">> \o CodeUnits[c][i]]))
         ELSE <<c>>

\* json.dumps of a str
JsonString(s) == <<Quote>> \o Concat(ListOf([i \in DOMAIN s |-> EscapeChar(s[i])])) \o <<Quote>>

\* a faulty variant of Round3: the digits after the third are cut off
Round3_Truncate(x) == Rat((1000 * x[1]) \div x[2], 1000)

\* round(x, 3) of x >= 0: the nearest multiple of 1/1000, of two nearest the even one
Round3(x) ==
    LET num == 1000 * x[1]
        fl == num \div x[2]
        rem == num % x[2]
    IN  Rat(IF 2 * rem < x[2] THEN fl
            ELSE IF 2 * rem > x[2] THEN fl + 1
            ELSE IF fl % 2 = 0 THEN fl ELSE fl + 1,
            1000)

DigitChar(n) == CHOOSE c \in DOMAIN DigitOf : DigitOf[c] = n

RECURSIVE IntDigits(_)
\* str(n) of n >= 0
IntDigits(n) ==
    IF n < 10 THEN <<DigitChar(n)>> ELSE Append(IntDigits(n \div 10), DigitChar(n % 10))

\* float.__repr__ of a multiple x >= 0 of 1/1000: the shortest decimal, with
\* at least one digit after the point
FloatRepr(x) ==
    LET k == (1000 * x[1]) \div x[2]
        f == k % 1000
    IN  IntDigits(k \div 1000) \o <<".">> \o
            (IF f % 100 = 0 THEN <<DigitChar(f \div 100)>>
             ELSE IF f % 10 = 0 THEN <<DigitChar(f \div 100), DigitChar((f \div 10) % 10)>>
             ELSE <<DigitChar(f \div 100), DigitChar((f \div 10) % 10), DigitChar(f % 10)>>)

\* the line break and indentation json.dumps(indent=2) writes at a nesting level
NewlineIndent(level) == <<Newline>> \o [i \in 1..(2 * level) |-> " "]

\* a list or a dictionary at nesting level `level`, its items already written
JsonContainer(open, close, items, level) ==
    IF items = <<>> THEN <<open, close>>
    ELSE <<open>> \o NewlineIndent(level + 1)
             \o JoinWith(<<",">> \o NewlineIndent(level + 1), items)
             \o NewlineIndent(level) \o <<close>>

\* json.dumps of a list of str at nesting level `level`
JsonStrings(lst, level) ==
    JsonContainer("[", "]", ListOf([i \in DOMAIN lst |-> JsonString(lst[i])]), level)

\* the keys of export_item
ExportKeys ==
    [candidate_name |-> <<"c","a","n","d","i","d","a","t","e","_","n","a","m","e">>,
     filename |-> <<"f","i","l","e","n","a","m","e">>,
     overall_score |-> <<"o","v","e","r","a","l","l","_","s","c","o","r","e">>,
     skill_match_score |-> <<"s","k","i","l","l","_","m","a","t","c","h","_","s","c","o","r","e">>,
     experience_match_score |-> <<"e","x","p","e","r","i","e","n","c","e","_","m","a","t","c","h","_","s","c","o","r","e">>,
     education_match_score |-> <<"e","d","u","c","a","t","i","o","n","_","m","a","t","c","h","_","s","c","o","r","e">>,
     matched_skills |-> <<"m","a","t","c","h","e","d","_","s","k","i","l","l","s">>,
     relevant_experience |-> <<"r","e","l","e","v","a","n","t","_","e","x","p","e","r","i","e","n","c","e">>,
     explanation |-> <<"e","x","p","l","a","n","a","t","i","o","n">>]

\* "key": value
JsonMember(key, value) == JsonString(key) \o <<":", " ">> \o value

\* export_item of one match, its members written in insertion order
ExportItem(match) ==
    <<JsonMember(ExportKeys.candidate_name, JsonString(match.candidate_name)),
      JsonMember(ExportKeys.filename, JsonString(match.cv_filename)),
      JsonMember(ExportKeys.overall_score, FloatRepr(Round3(match.overall_score))),
      JsonMember(ExportKeys.skill_match_score, FloatRepr(Round3(match.skill_match_score))),
      JsonMember(ExportKeys.experience_match_score,
                 FloatRepr(Round3(match.experience_match_score))),
      JsonMember(ExportKeys.education_match_score,
                 FloatRepr(Round3(match.education_match_score))),
      JsonMember(ExportKeys.matched_skills, JsonStrings(match.matched_skills, 2)),
      JsonMember(ExportKeys.relevant_experience, JsonStrings(match.relevant_experience, 2)),
      JsonMember(ExportKeys.explanation, JsonString(match.explanation))>>

\* export_matches_to_json(matches)
ExportMatchesToJson(matches) ==
    JsonContainer("[", "]",
                  ListOf([i \in DOMAIN matches |->
                             JsonContainer("{", "}", ExportItem(matches[i]), 1)]),
                  0)

\* the character written as the code units `units`
CharOfUnits(units) == CHOOSE c \in DOMAIN CodeUnits : CodeUnits[c] = units

\* the escape sequence whose backslash is at i: a \uXXXX, two of them for a
\* surrogate pair, or a backslash and a letter
Unescape(s, i) ==
    IF s[i + 1] = "u"
    THEN LET unit == SubSeq(s, i + 2, i + 5)
         IN  IF /\ unit[1] = "d" /\ unit[2] \in {"8", "9", "a", "b"}
                /\ i + 11 <= Len(s) /\ s[i + 6] = Backslash /\ s[i + 7] = "u"
             THEN [value |-> CharOfUnits(<<unit, SubSeq(s, i + 8, i + 11)>>), next |-> i + 12]
             ELSE [value |-> CharOfUnits(<<unit>>), next |-> i + 6]
    ELSE [value |-> IF s[i + 1] = "/" THEN "/"
                    ELSE CHOOSE c \in DOMAIN ShortEscape : ShortEscape[c] = s[i + 1],
          next |-> i + 2]

RECURSIVE ParseChars(_, _)
\* the str whose first character is at i, up to its closing quote
ParseChars(s, i) ==
    IF s[i] = Quote THEN [value |-> <<>>, next |-> i + 1]
    ELSE LET c == IF s[i] = Backslash THEN Unescape(s, i) ELSE [value |-> s[i], next |-> i + 1]
             rest == ParseChars(s, c.next)
         IN  [value |-> <<c.value>> \o rest.value, next |-> rest.next]

\* the number at i: digits, and a point and digits
ParseNumber(s, i) ==
    LET e == DigitsEnd(s, i)
        whole == DigitsValue(s, i, e - 1)
    IN  IF e <= Len(s) /\ s[e] = "."
        THEN LET f == DigitsEnd(s, e + 1)
                 scale == 10 ^ (f - e - 1)
             IN  [value |-> Rat(whole * scale + DigitsValue(s, e + 1, f - 1), scale),
                  next |-> f]
        ELSE [value |-> Rat(whole, 1), next |-> e]

\* dict(pairs): the last value of every key
DictOf(pairs) ==
    [k \in {pairs[n][1] : n \in DOMAIN pairs} |->
        pairs[CHOOSE n \in DOMAIN pairs :
                 /\ pairs[n][1] = k
                 /\ \A m \in DOMAIN pairs : pairs[m][1] = k => m <= n][2]]

RECURSIVE ParseValue(_, _)
RECURSIVE ParseItems(_, _, _)
\* the items of a list, or the members of a dictionary as <<key, value>>,
\* the first at i, up to the closing bracket
ParseItems(s, i, members) ==
    LET key == IF members THEN ParseChars(s, i + 1) ELSE [value |-> <<>>, next |-> i]
        v == ParseValue(s, IF members THEN SkipWS(s, SkipWS(s, key.next) + 1) ELSE i)
        item == IF members THEN <<key.value, v.value>> ELSE v.value
        j == SkipWS(s, v.next)
    IN  IF s[j] = ","
        THEN LET rest == ParseItems(s, SkipWS(s, j + 1), members)
             IN  [value |-> <<item>> \o rest.value, next |-> rest.next]
        ELSE [value |-> <<item>>, next |-> j + 1]

\* the JSON value at i
ParseValue(s, i) ==
    IF s[i] = Quote THEN ParseChars(s, i + 1)
    ELSE IF s[i] \in {"[", "{"}
         THEN LET j == SkipWS(s, i + 1)
                  items == IF s[j] \in {"]", "}"}
                           THEN [value |-> <<>>, next |-> j + 1]
                           ELSE ParseItems(s, j, s[i] = "{")
              IN  [value |-> IF s[i] = "{" THEN DictOf(items.value) ELSE items.value,
                   next |-> items.next]
         ELSE ParseNumber(s, i)

\* json.loads(s)
JsonLoads(s) == ParseValue(s, SkipWS(s, 1)).value

-----------------------------------------------------------------------------
(* The exporter on its own: lists of match results, then one call *)

MaxMatches == 2

\* a name with a quote and a backslash, one with a letter outside ASCII
ExportNames == {<<"A","l">>, <<"O", Quote, Backslash, "n">>, <<"Z","o","U+00E9">>}

\* overall, skill, experience and education scores
ExportScores ==
    {<<Rat(39, 50), Rat(4, 5), Rat(3, 5), Rat(1, 1)>>,
     <<Rat(1, 3), Rat(1, 16), Rat(2, 3), Rat(0, 1)>>}

\* explanation, matched skills and relevant experience
ExportTexts ==
    {<< <<>>, <<>>, <<>> >>,
     << <<"U+1F7E2"," ","O","K",Newline,"|","\t">>,
        << <<"c","+","+">>, <<"g","o">> >>,
        << <<"D","e","v"," ","a","t"," ","A","/","B">> >> >>}

ExportMatchPool ==
    {[cv_filename |-> nm \o <<".","p","d","f">>,
      candidate_name |-> nm,
      overall_score |-> sc[1],
      skill_match_score |-> sc[2],
      experience_match_score |-> sc[3],
      education_match_score |-> sc[4],
      explanation |-> tx[1],
      matched_skills |-> tx[2],
      relevant_experience |-> tx[3],
      cv_data |-> [filename |-> nm \o <<".","p","d","f">>]] :
        nm \in ExportNames, sc \in ExportScores, tx \in ExportTexts}

InitExport ==
    /\ skill_categories = InitSkillCategories
    /\ weights = InitWeights
    /\ cv_data_list = <<>>
    /\ job_description = <<>>
    /\ top_k = 5
    /\ include_explanations = TRUE
    /\ provider = ProviderUp
    /\ now_year \in CurrentYears
    /\ job_requirements = NoRequirements
    /\ scores = NoScores
    /\ ret \in SeqsUpTo(ExportMatchPool, MaxMatches)
    /\ exported = <<>>
    /\ total_years = 0
    /\ job_descriptions = <<>>
    /\ pc = "init"

\* a call export_matches_to_json(ret)
ExportMatchesCall ==
    /\ pc = "init"
    /\ exported' = ExportMatchesToJson(ret)
    /\ pc' = "exported"
    /\ UNCHANGED <<skill_categories, weights, cv_data_list, job_description, top_k,
                   include_explanations, provider, now_year, job_requirements, scores, ret,
                   total_years, job_descriptions>>

NextExport == ExportMatchesCall

SpecExport == InitExport /\ [][NextExport]_vars

-----------------------------------------------------------------------------
(* Properties of export_matches_to_json *)

\* y is x rounded to 3 decimal places: a multiple of 1/1000 nearest to x
IsRounded3(y, x) ==
    /\ (1000 * y[1]) % y[2] = 0
    /\ 2000 * Abs(y[1] * x[2] - x[1] * y[2]) <= x[2] * y[2]

(* C15: json.loads of the text export_matches_to_json returns is a list of  *)
(* one dictionary per match, in the order of the matches, whose four scores *)
(* are the match's scores rounded to 3 decimal places and whose candidate   *)
(* name, filename, matched skills, relevant experience and explanation are  *)
(* the match's.                                                             *)
C15_ExportRoundTrip ==
    pc = "exported" =>
        LET parsed == JsonLoads(exported)
        IN  /\ Len(parsed) = Len(ret)
            /\ \A n \in 1..Len(ret) :
                  LET r == parsed[n]
                      m == ret[n]
                  IN  /\ DOMAIN r = {ExportKeys[k] : k \in DOMAIN ExportKeys}
                      /\ r[ExportKeys.candidate_name] = m.candidate_name
                      /\ r[ExportKeys.filename] = m.cv_filename
                      /\ r[ExportKeys.matched_skills] = m.matched_skills
                      /\ r[ExportKeys.relevant_experience] = m.relevant_experience
                      /\ r[ExportKeys.explanation] = m.explanation
                      /\ IsRounded3(r[ExportKeys.overall_score], m.overall_score)
                      /\ IsRounded3(r[ExportKeys.skill_match_score], m.skill_match_score)
                      /\ IsRounded3(r[ExportKeys.experience_match_score],
                                    m.experience_match_score)
                      /\ IsRounded3(r[ExportKeys.education_match_score],
                                    m.education_match_score)

\* two matches exported: a name with a quote and a backslash, an explanation
\* with characters outside ASCII, scores that rounding changes
C15_Witness ==
    /\ pc = "exported"
    /\ Len(ret) = 2
    /\ Quote \in Range(ret[1].candidate_name)
    /\ "U+1F7E2" \in Range(ret[1].explanation)
    /\ ret[2].overall_score = <<1, 3>>
    /\ ret[2].skill_match_score = <<1, 16>>

-----------------------------------------------------------------------------
(* CVData.get_total_experience_years on its own: a record with a list of   *)
(* experience entries, then one call                                        *)

MaxEntries == 2

\* YYYY, MM/YYYY, and a text that is no date
StartDates == {<<"2","0","1","8">>, <<"0","1","/","2","0","2","0">>, <<"s","o","o","n">>}

EndDates ==
    {<<"2","0","2","1">>, <<"2","0","1","6">>, <<"0","6","/","2","0","2","1">>,
     <<"P","r","e","s","e","n","t">>, <<"C","U","R","R","E","N","T">>}

DatedEntries ==
    {[job_title |-> <<"D","e","v">>, company |-> <<"A","c","m","e">>,
      start_date |-> sd, end_date |-> ed] : sd \in StartDates, ed \in EndDates}

InitYears ==
    /\ NewMatcher
    /\ \E exps \in SeqsUpTo(DatedEntries, MaxEntries) :
          cv_data_list = <<[filename |-> <<"c","v",".","p","d","f">>, raw_text |-> <<>>,
                            personal_info |-> [name |-> <<"P","a","t">>],
                            experience |-> exps,
                            parsed_date |-> <<"2","0","2","6">>]>>
    /\ job_description = <<>>
    /\ provider = ProviderUp
    /\ job_requirements = NoRequirements

\* a call CVData(**d).get_total_experience_years() on the one record d of
\* cv_data_list
TotalExperienceYears ==
    /\ pc = "init"
    /\ total_years' = GetTotalExperienceYears(CVData(cv_data_list[1]), now_year)
    /\ pc' = "totalled"
    /\ UNCHANGED <<skill_categories, weights, cv_data_list, job_description, top_k,
                   include_explanations, provider, now_year, job_requirements, scores,
                   ret, exported, job_descriptions>>

\* a call Experience(**e).get_duration_years() on the first experience entry
\* e of the record of cv_data_list
DurationYears ==
    /\ pc = "init"
    /\ CVData(cv_data_list[1]).experience # <<>>
    /\ total_years' = GetDurationYears(CVData(cv_data_list[1]).experience[1], now_year)
    /\ pc' = "duration"
    /\ UNCHANGED <<skill_categories, weights, cv_data_list, job_description, top_k,
                   include_explanations, provider, now_year, job_requirements, scores,
                   ret, exported, job_descriptions>>

NextYears ==
    \/ TotalExperienceYears
    \/ DurationYears

SpecYears == InitYears /\ [][NextYears]_vars

-----------------------------------------------------------------------------
(* Properties of get_total_experience_years *)

RECURSIVE AfterSlash(_)
\* the text after the first slash
AfterSlash(s) == IF Head(s) = "/" THEN Tail(s) ELSE AfterSlash(Tail(s))

\* the calendar year a date in the format YYYY or MM/YYYY names
CalendarYear(date) == ParseInt(IF Contains(date, W_slash) THEN AfterSlash(date) ELSE date)

\* max(0, endYear - startYear) of one entry, 0 when a date does not parse
YearSpan(exp, year) ==
    LET start == CalendarYear(exp.start_date)
        end == IF Lower(exp.end_date) \in {W_present, W_current}
               THEN [ok |-> TRUE, value |-> year]
               ELSE CalendarYear(exp.end_date)
    IN  IF start.ok /\ end.ok THEN Max2(0, end.value - start.value) ELSE 0

RECURSIVE SumYearSpans(_, _)
SumYearSpans(exps, year) ==
    IF exps = <<>> THEN 0 ELSE YearSpan(Head(exps), year) + SumYearSpans(Tail(exps), year)

(* C16: get_total_experience_years is the sum over the experience entries   *)
(* of max(0, endYear - startYear), where 'present' or 'current' in any case *)
(* is the current year and an entry with a date that does not parse counts  *)
(* 0; it is never negative.                                                 *)
C16_TotalIsSumOfYearSpans ==
    pc = "totalled" =>
        /\ total_years >= 0
        /\ total_years = SumYearSpans(CVData(cv_data_list[1]).experience, now_year)

\* a date in one of the documented formats, YYYY or MM/YYYY
DocumentedFormat(date) ==
    \/ Len(date) = 4 /\ \A i \in 1..4 : IsDigit(date[i])
    \/ /\ Len(date) = 7
       /\ date[3] = "/"
       /\ \A i \in {1, 2, 4, 5, 6, 7} : IsDigit(date[i])

(* C26 as claimed: for dates in the formats YYYY and MM/YYYY                 *)
(* get_duration_years is max(0, endYear - startYear) of the year components, *)
(* with the current year for an end date 'Present'.                          *)
C26_DurationFromYearComponents ==
    pc = "duration" =>
        LET exp == CVData(cv_data_list[1]).experience[1]
        IN  (/\ DocumentedFormat(exp.start_date)
             /\ \/ DocumentedFormat(exp.end_date)
                \/ Lower(exp.end_date) \in {W_present, W_current})
                => total_years = YearSpan(exp, now_year)

-----------------------------------------------------------------------------
(* One matcher called again and again: find_matches and bulk_match *)

MaxJobs == 2

CallJobs == {JobSenior, JobWeb}

CallCVs == {CVAlice, CVCarol, CVErin}

\* what _extract_job_requirements returns for the job descriptions of a
\* set, one dictionary for every order of the required skills
RequirementVariants(jobs) ==
    UNION {UNION {{ExtractJobRequirements(text, listed) : listed \in ListsOfSet(skills)} :
                     skills \in {RequiredSkillSet(text)}} : text \in jobs}

InitCalls ==
    /\ cv_data_list \in SeqsUpTo(CallCVs, MaxCVs)
    /\ Idle

\* a call find_matches(text, cv_data_list, k) on the matcher as it is
CallFindMatches ==
    \E requirements \in RequirementVariants(CallJobs) :
        \E k \in {1, 5}, year \in CurrentYears :
            FindMatches(requirements.job_description_text, requirements, k, TRUE,
                        ProviderUp, year)

\* a faulty variant of JobKey: the keys are counted from 0
JobKey_FromZero(i) == <<"J","o","b","_">> \o IntDigits(i)

\* f"Job_{i+1}" for the index i of enumerate(job_descriptions)
JobKey(i) == <<"J","o","b","_">> \o IntDigits(i + 1)

\* results[key] = value on a dictionary kept as its items in insertion order
SetItem(results, key, value) ==
    IF \E n \in DOMAIN results : results[n].key = key
    THEN [n \in DOMAIN results |->
             IF results[n].key = key THEN [key |-> key, value |-> value] ELSE results[n]]
    ELSE Append(results, [key |-> key, value |-> value])

RECURSIVE BulkResults(_, _, _, _, _)
\* results after the loop over the first n job descriptions of bulk_match
BulkResults(jobs, requirements, p, year, n) ==
    IF n = 0 THEN <<>>
    ELSE CHOOSE results \in
             {SetItem(before, JobKey(n - 1), value) :
                 before \in {BulkResults(jobs, requirements, p, year, n - 1)},
                 value \in {IF cv_data_list = <<>> THEN <<>>
                            ELSE FindMatchesResult(p, requirements[n], jobs[n], cv_data_list,
                                                   5, TRUE, year)}} : TRUE

\* a call bulk_match(jobs, cv_data_list) with embedding model p in year
\* `year`: find_matches(job_desc, cv_data_list) for every job description in
\* turn, collected under the keys Job_1, Job_2, ...; requirements[i] is what
\* _extract_job_requirements returns in the i-th call
BulkMatch(jobs, requirements, p, year) ==
    /\ job_descriptions' = jobs
    /\ ret' = BulkResults(jobs, requirements, p, year, Len(jobs))
    /\ IF jobs = <<>>
       THEN UNCHANGED <<job_description, top_k, include_explanations, provider, now_year,
                        job_requirements>>
       ELSE /\ job_description' = jobs[Len(jobs)]
            /\ top_k' = 5
            /\ include_explanations' = TRUE
            /\ provider' = p
            /\ now_year' = year
            /\ job_requirements' =
                   IF cv_data_list = <<>> THEN NoRequirements ELSE requirements[Len(jobs)]
    /\ pc' = "bulk_match"
    /\ UNCHANGED <<skill_categories, weights, cv_data_list, scores, exported, total_years>>

\* a call bulk_match(jobs, cv_data_list) with job descriptions that differ
\* from each other
CallBulkMatch ==
    \E requirements \in SeqsUpTo(RequirementVariants(CallJobs), MaxJobs) :
        \E year \in CurrentYears :
            \E jobs \in {ListOf([i \in DOMAIN requirements |->
                                     requirements[i].job_description_text])} :
                /\ \A i, j \in DOMAIN jobs : jobs[i] = jobs[j] => i = j
                /\ BulkMatch(jobs, requirements, ProviderUp, year)

NextCalls ==
    \/ CallFindMatches
    \/ CallBulkMatch

SpecCalls == InitCalls /\ [][NextCalls]_vars

-----------------------------------------------------------------------------
(* Properties of a sequence of calls *)

\* what find_matches(text, cv_data_list, k, incl) returns on a new matcher,
\* for one of the orders of the required skills
FreshResults(text, k, incl) ==
    {IF cv_data_list = <<>> THEN <<>>
     ELSE FindMatchesResult(provider, ExtractJobRequirements(text, listed), text,
                            cv_data_list, k, incl, now_year) :
        listed \in ListsOfSet(RequiredSkillSet(text))}

\* the matcher is as __init__ left it, and the last call returned what a new
\* matcher returns
ReturnsAsFresh ==
    /\ skill_categories = InitSkillCategories
    /\ weights = InitWeights
    /\ pc = "find_matches" =>
          ret \in FreshResults(job_description, top_k, include_explanations)
    /\ pc = "bulk_match" =>
          /\ Len(ret) = Len(job_descriptions)
          /\ \A i \in 1..Len(ret) :
                ret[i].value \in FreshResults(job_descriptions[i], 5, TRUE)

(* C17: no call of find_matches or bulk_match changes the skill vocabulary, *)
(* the weights or the caller's candidate list, and in every sequence of     *)
(* calls each call returns what it returns on a new matcher.                *)
C17_CallsKeepNoState ==
    /\ []ReturnsAsFresh
    /\ [][UNCHANGED <<skill_categories, weights, cv_data_list>>]_vars

\* a bulk_match of two job descriptions after an earlier call, with results
\* for both
C17_Witness ==
    /\ pc = "bulk_match"
    /\ Len(ret) = 2
    /\ job_descriptions[1] # job_descriptions[2]
    /\ Len(ret[1].value) = 2
    /\ Len(ret[2].value) = 2

\* the keys 'Job_1', 'Job_2', ... by position
JobKeyNames ==
    <<<<"J","o","b","_","1">>, <<"J","o","b","_","2">>, <<"J","o","b","_","3">>,
      <<"J","o","b","_","4">>>>

(* C27: bulk_match over n job descriptions returns a mapping with exactly    *)
(* the keys 'Job_1' .. 'Job_n', and the value under 'Job_i' is what          *)
(* find_matches(job_i, candidates) returns with top_k = 5 and explanations   *)
(* on, whatever the other jobs of the batch and their order.                 *)
C27_BulkMatchByPosition ==
    pc = "bulk_match" =>
        /\ Len(ret) = Len(job_descriptions)
        /\ \A i \in DOMAIN ret :
              /\ ret[i].key = JobKeyNames[i]
              /\ ret[i].value \in FreshResults(job_descriptions[i], 5, TRUE)
              /\ \A n \in DOMAIN ret[i].value : ret[i].value[n].explanation # <<>>

\* two job descriptions, the second with no candidate left out by top_k
C27_Witness ==
    /\ pc = "bulk_match"
    /\ job_descriptions = <<JobWeb, JobSenior>>
    /\ ret[1].key = <<"J","o","b","_","1">>
    /\ ret[2].key = <<"J","o","b","_","2">>
    /\ Len(ret[2].value) = Len(cv_data_list)
    /\ Len(cv_data_list) = 2


-----------------------------------------------------------------------------
(* _calculate_skill_match driven on its own, on the requirements extracted   *)
(* from job descriptions and on candidates with listed skills               *)

\* the most skills a candidate lists in the skill matching
MaxListedSkills == 3

\* asks for python and java
JobBackend == <<"P","y","t","h","o","n"," ","a","n","d"," ","J","a","v","a">>

SkillJobs == {JobEmpty, JobSenior, JobWeb, JobBackend}

SkillJava == [name |-> <<"J","a","v","a">>, category |-> <<"T","e","c","h","n","i","c","a","l">>]

SkillTypeScript == [name |-> <<"T","y","p","e","S","c","r","i","p","t">>, category |-> <<"T","e","c","h","n","i","c","a","l">>]

SkillCVs ==
    {[filename |-> <<"c","v",".","p","d","f">>, raw_text |-> <<>>,
      personal_info |-> [name |-> <<"P","a","t">>],
      skills |-> ListOf(sk), experience |-> <<>>, education |-> <<>>,
      parsed_date |-> <<"2","0","2","6">>] :
        sk \in SeqsUpTo({SkillPython, SkillJava, SkillJS, SkillTypeScript}, MaxListedSkills)}

InitSkill ==
    /\ NewMatcher
    /\ \E d \in SkillCVs : cv_data_list = <<d>>
    /\ job_description \in SkillJobs
    /\ provider \in ProviderPool
    /\ job_requirements \in RequirementVariants({job_description})

\* a call _calculate_skill_match(CVData(**d), job_requirements) on the one
\* record d of cv_data_list
CalculateSkills ==
    /\ pc = "init"
    /\ scores' = CalculateSkillMatch(provider, CVData(cv_data_list[1]), job_requirements)
    /\ pc' = "skill_match"
    /\ UNCHANGED <<skill_categories, weights, cv_data_list, job_description, top_k,
                   include_explanations, provider, now_year, job_requirements, ret,
                   exported, total_years, job_descriptions>>

NextSkill == CalculateSkills

SpecSkill == InitSkill /\ [][NextSkill]_vars


-----------------------------------------------------------------------------
(* Properties of _calculate_skill_match *)

\* the call returned, with required skills
SkillMatched ==
    /\ pc = "skill_match"
    /\ ~scores.raised
    /\ job_requirements.required_skills # <<>>

\* candidate_skills of the scored candidate
ListedSkills ==
    ListOf([i \in DOMAIN cv_data_list[1].skills |-> Lower(cv_data_list[1].skills[i].name)])

\* the required skills the candidate lists, in the order of required_skills
DirectlyMatched ==
    SelectSeq(job_requirements.required_skills, LAMBDA r : InList(r, ListedSkills))

\* the positions of the candidate skills that are not in `matched` and whose
\* similarity with req_skill is above 0.70
AcceptablePositions(req_skill, matched) ==
    {j \in DOMAIN ListedSkills :
        /\ ~InList(ListedSkills[j], matched)
        /\ RLt(<<7, 10>>, CosineSimilarity(provider, req_skill, ListedSkills[j]))}

RECURSIVE FallbackPairs(_, _)
\* `matched` with, for every required skill from position i on that the
\* candidate does not list, the first acceptable candidate skill, if any
FallbackPairs(i, matched) ==
    LET required == job_requirements.required_skills
    IN  IF i > Len(required) THEN matched
        ELSE IF InList(required[i], ListedSkills) THEN FallbackPairs(i + 1, matched)
        ELSE LET J == AcceptablePositions(required[i], matched)
             IN  IF J = {} THEN FallbackPairs(i + 1, matched)
                 ELSE FallbackPairs(i + 1,
                          Append(matched, ListedSkills[CHOOSE j \in J : \A k \in J : j <= k]))

(* C18: in the semantic fallback every required skill without a direct      *)
(* match gets at most one candidate skill, the first in the candidate's      *)
(* order that is not matched yet and whose similarity is strictly above 0.70 *)
(* (0.70 itself is rejected); required skills matched directly are not sent  *)
(* to the fallback.                                                          *)
C18_FallbackPairsFirstAbove ==
    SkillMatched =>
        LET required == job_requirements.required_skills
            matched == scores.matched_skills
            nd == Len(DirectlyMatched)
        IN  /\ matched = FallbackPairs(1, DirectlyMatched)
            /\ Len(matched) - nd <= Len(required) - nd
            /\ \A k \in (nd + 1)..Len(matched) :
                  \E i \in DOMAIN required :
                     /\ ~InList(required[i], ListedSkills)
                     /\ RLt(<<7, 10>>, CosineSimilarity(provider, required[i], matched[k]))
                     /\ \A j \in DOMAIN ListedSkills :
                           (ListedSkills[j] = matched[k] /\
                            \A h \in 1..(j - 1) : ListedSkills[h] # matched[k])
                             => \A h \in 1..(j - 1) :
                                   \/ InList(ListedSkills[h], SubSeq(matched, 1, k - 1))
                                   \/ RLe(CosineSimilarity(provider, required[i],
                                                           ListedSkills[h]), <<7, 10>>)

\* java passes typescript by at exactly 0.70 and takes js; javascript then
\* takes typescript
C18_Witness ==
    /\ SkillMatched
    /\ job_requirements.required_skills = <<T_java, T_javascript>>
    /\ ListedSkills = <<T_typescript, T_js>>
    /\ CosineSimilarity(provider, T_java, T_typescript) = <<7, 10>>
    /\ scores.matched_skills = <<T_js, T_typescript>>


\* the skills of every category, in the order __init__ lists them
VocabularyList ==
    Concat(ListOf([i \in DOMAIN skill_categories |-> skill_categories[i].skills]))

VocabularyPosition(skill) == CHOOSE i \in DOMAIN VocabularyList : VocabularyList[i] = skill

(* C19 as claimed: matched_skills lists every direct match before every      *)
(* semantic match, and the direct matches in the order of the vocabulary.    *)
C19_DirectFirstInVocabularyOrder ==
    SkillMatched =>
        LET required == job_requirements.required_skills
            matched == scores.matched_skills
        IN  \A k, l \in DOMAIN matched :
               k < l =>
                  /\ InList(matched[l], required) => InList(matched[k], required)
                  /\ (InList(matched[k], required) /\ InList(matched[l], required))
                        => VocabularyPosition(matched[k]) < VocabularyPosition(matched[l])

\* what holds of the order: direct matches first, in the order of the list
\* that list(required_skills) returned
C19_DirectFirstInListedOrder ==
    SkillMatched =>
        LET nd == Len(DirectlyMatched)
        IN  /\ SubSeq(scores.matched_skills, 1, nd) = DirectlyMatched
            /\ \A k \in (nd + 1)..Len(scores.matched_skills) :
                  ~InList(scores.matched_skills[k], job_requirements.required_skills)

(* C20: with required skills the skill score is len(matched_skills) /        *)
(* len(required_skills), times 1.1 and cut at 1.0 exactly when the candidate *)
(* lists more skills than are required, and without bonus otherwise.         *)
C20_SkillScoreWithBonus ==
    SkillMatched =>
        LET required == job_requirements.required_skills
            base == Rat(Len(scores.matched_skills), Len(required))
        IN  /\ Len(ListedSkills) > Len(required)
                => scores.score = RMin(<<1, 1>>, RMul(base, <<11, 10>>))
            /\ Len(ListedSkills) <= Len(required) => scores.score = base

\* as many listed skills as required ones, one of two matched: no bonus
C20_Witness ==
    /\ SkillMatched
    /\ Len(job_requirements.required_skills) = 2
    /\ Len(ListedSkills) = 2
    /\ Len(scores.matched_skills) = 1
    /\ scores.score = <<1, 2>>


(* C28: with required skills, matched_skills has at most as many entries as  *)
(* there are required skills and no entry twice: a required skill stands in  *)
(* it at most once and only as a direct match, every other entry is a        *)
(* candidate skill paired with a required skill of its own that the          *)
(* candidate does not list, so the ratio before the bonus is at most 1.      *)
C28_MatchedWithinRequired ==
    SkillMatched =>
        LET required == job_requirements.required_skills
            matched == scores.matched_skills
            nd == Len(DirectlyMatched)
            fallback == (nd + 1)..Len(matched)
        IN  /\ Len(matched) <= Len(required)
            /\ \A k, l \in DOMAIN matched : matched[k] = matched[l] => k = l
            /\ \A k \in DOMAIN matched :
                  InList(matched[k], required) => k <= nd /\ InList(matched[k], ListedSkills)
            /\ \E f \in [fallback -> DOMAIN required] :
                  /\ \A k, l \in fallback : f[k] = f[l] => k = l
                  /\ \A k \in fallback :
                        /\ ~InList(required[f[k]], ListedSkills)
                        /\ InList(matched[k], ListedSkills)
                        /\ RLt(<<7, 10>>, CosineSimilarity(provider, required[f[k]], matched[k]))
            /\ RLe(Rat(Len(matched), Len(required)), <<1, 1>>)

\* js is close to both java and javascript and is taken once; python is
\* listed, close to neither, and left out
C28_Witness ==
    /\ SkillMatched
    /\ Len(job_requirements.required_skills) = 2
    /\ InList(T_java, job_requirements.required_skills)
    /\ InList(T_javascript, job_requirements.required_skills)
    /\ ListedSkills = <<T_js, T_python>>
    /\ scores.matched_skills = <<T_js>>

\* the totals of years the scored candidate is compared with: from below
\* zero to past the requirement and the three years of a senior role
ComparedYears == (0 - MaxRequiredYears)..(CandidateYears + MaxRequiredYears + 3)

(* C30: for fixed requirements the experience score does not fall when the   *)
(* candidate's total years grow: every total below the scored candidate's    *)
(* gets at most the candidate's score and every total above it at least      *)
(* that score, across the three years of the senior penalty and across the   *)
(* required years.                                                           *)
C30_ExperienceScoreMonotone ==
    Scored =>
        \A y \in ComparedYears :
            /\ y <= CandidateYears
                  => RLe(ExperienceScore(y, job_requirements), scores.experience)
            /\ y >= CandidateYears
                  => RLe(scores.experience, ExperienceScore(y, job_requirements))

\* a senior role asking for two years: two years score 0.7, three years 1.0,
\* one year 0.35
C30_Witness ==
    /\ Scored
    /\ job_requirements.is_senior_role
    /\ job_requirements.required_experience_years = 2
    /\ CandidateYears = 2
    /\ scores.experience = <<7, 10>>
    /\ ExperienceScore(3, job_requirements) = <<1, 1>>
    /\ ExperienceScore(1, job_requirements) = <<7, 20>>

-----------------------------------------------------------------------------
(* Further properties of find_matches *)

(* C29: the results of find_matches go back one-to-one to distinct positions *)
(* of the input list: there are no more results than records, every result   *)
(* has a position of its own whose record is its cv_data and gives its       *)
(* cv_filename, and its candidate_name is the name of that record, or        *)
(* 'Unknown' when the name is empty.                                         *)
C29_ResultsOfDistinctRecords ==
    Returned =>
        /\ Len(ret) <= Len(cv_data_list)
        /\ \E f \in [DOMAIN ret -> DOMAIN cv_data_list] :
              /\ \A m, n \in DOMAIN ret : f[m] = f[n] => m = n
              /\ \A n \in DOMAIN ret :
                    LET d == cv_data_list[f[n]]
                    IN  /\ ret[n].input_index = f[n]
                        /\ ret[n].cv_data = d
                        /\ ret[n].cv_filename = d.filename
                        /\ ret[n].candidate_name =
                              IF d.personal_info.name = <<>>
                              THEN <<"U","n","k","n","o","w","n">>
                              ELSE d.personal_info.name

\* two records, the second ranked first, the first without a name
C29_Witness ==
    /\ Returned
    /\ Len(cv_data_list) = 2
    /\ cv_data_list[1].personal_info.name = <<>>
    /\ Len(ret) = 2
    /\ ret[1].cv_data = cv_data_list[2]
    /\ ret[1].cv_data # cv_data_list[1]
    /\ ret[2].candidate_name = <<"U","n","k","n","o","w","n">>
    /\ ret[2].cv_filename = cv_data_list[1].filename

-----------------------------------------------------------------------------
(* Further properties of the scorers *)

(* C21: with required_experience_years > 0 the experience score is           *)
(* min(1.0, candidate_years / required_years), and it is multiplied by 0.7,  *)
(* after that cut, exactly when the role is senior and candidate_years < 3;  *)
(* three years or more are never penalised.                                  *)
C21_ClampThenSeniorPenalty ==
    (Scored /\ job_requirements.required_experience_years > 0) =>
        LET clamped == RMin(<<1, 1>>,
                            Rat(CandidateYears, job_requirements.required_experience_years))
        IN  /\ (job_requirements.is_senior_role /\ CandidateYears < 3)
                  => scores.experience = RMul(clamped, <<7, 10>>)
            /\ ~(job_requirements.is_senior_role /\ CandidateYears < 3)
                  => scores.experience = clamped

\* a senior role asking for one year, a candidate with two: the cut quotient
\* 1.0 is penalised to 0.7
C21_Witness ==
    /\ Scored
    /\ job_requirements.is_senior_role
    /\ job_requirements.required_experience_years = 1
    /\ CandidateYears = 2
    /\ scores.experience = <<7, 10>>


-----------------------------------------------------------------------------
(* _calculate_education_match driven on its own, on candidates with          *)
(* education entries of several degrees                                      *)

\* the most education entries of a candidate
MaxEducation == 2

DegreeTexts ==
    {<<"D","i","p","l","o","m","a">>,
     <<"B","a","c","h","e","l","o","r"," ","o","f"," ","S","c","i","e","n","c","e">>,
     <<"M","A","S","T","E","R">>,
     <<"P","h","D">>,
     <<"D","o","c","t","o","r","a","t","e">>,
     <<"M","a","s","t","e","r"," ","a","f","t","e","r"," ","B","a","c","h","e","l","o","r">>}

EducationCVs ==
    {[filename |-> <<"c","v",".","p","d","f">>, raw_text |-> <<>>,
      personal_info |-> [name |-> <<"P","a","t">>],
      skills |-> <<>>, experience |-> <<>>,
      education |-> ListOf([i \in DOMAIN dg |->
                       [degree |-> dg[i], institution |-> <<"E","T","H">>,
                        graduation_year |-> <<"2","0","1","0">>]]),
      parsed_date |-> <<"2","0","2","6">>] :
        dg \in SeqsUpTo(DegreeTexts, MaxEducation)}

InitEducation ==
    /\ NewMatcher
    /\ \E d \in EducationCVs : cv_data_list = <<d>>
    /\ job_description = <<>>
    /\ provider = ProviderUp
    /\ \E dg \in BOOLEAN :
          job_requirements = [NoRequirements EXCEPT !.requires_degree = dg]

\* a call _calculate_education_match(CVData(**d), job_requirements) on the one
\* record d of cv_data_list
CalculateEducation ==
    /\ pc = "init"
    /\ scores' = [raised |-> FALSE,
                  education |-> CalculateEducationMatch(CVData(cv_data_list[1]),
                                                        job_requirements)]
    /\ pc' = "education_match"
    /\ UNCHANGED <<skill_categories, weights, cv_data_list, job_description, top_k,
                   include_explanations, provider, now_year, job_requirements, ret,
                   exported, total_years, job_descriptions>>

NextEducation == CalculateEducation

SpecEducation == InitEducation /\ [][NextEducation]_vars

\* the ranks the keywords stand for
DegreeKeywords ==
    {[word |-> W_phd, rank |-> 4], [word |-> W_doctorate, rank |-> 4],
     [word |-> W_master, rank |-> 3], [word |-> W_bachelor, rank |-> 2]}

\* the rank of the first keyword group, highest first, that occurs in the
\* degree in any letter case; 1 without a keyword
DegreeRank(degree) ==
    LET found == {k.rank : k \in {w \in DegreeKeywords : Contains(Lower(degree), w.word)}}
    IN  IF found = {} THEN 1 ELSE CHOOSE r \in found : \A q \in found : q <= r

(* C22: _calculate_education_match returns 0.7 when no degree is required,   *)
(* 0.3 when one is required and the candidate has no education entry, and    *)
(* otherwise min(1.0, maxRank / 2) with the rank 4 for phd or doctorate, 3   *)
(* for master, 2 for bachelor and 1 otherwise, in any letter case; so the    *)
(* result is one of 0.3, 0.5, 0.7 and 1.0.                                   *)
C22_EducationScoreByRank ==
    pc = "education_match" =>
        LET education == cv_data_list[1].education
            ranks == {DegreeRank(education[i].degree) : i \in DOMAIN education}
            maxRank == CHOOSE r \in ranks : \A q \in ranks : q <= r
        IN  /\ scores.education =
                  IF ~job_requirements.requires_degree THEN <<7, 10>>
                  ELSE IF education = <<>> THEN <<3, 10>>
                  ELSE RMin(<<1, 1>>, Rat(maxRank, 2))
            /\ scores.education \in {<<3, 10>>, <<1, 2>>, <<7, 10>>, <<1, 1>>}

\* a degree is required and the one entry, MASTER in capitals, scores 1.0
C22_Witness ==
    /\ pc = "education_match"
    /\ job_requirements.requires_degree
    /\ Len(cv_data_list[1].education) = 1
    /\ cv_data_list[1].education[1].degree = <<"M","A","S","T","E","R">>
    /\ scores.education = <<1, 1>>


-----------------------------------------------------------------------------
(* _calculate_experience_match driven on its own                             *)

RelevanceJobs == {JobSenior, JobWeb, JobBackend}

InitExperience ==
    /\ NewMatcher
    /\ \E exps \in SeqsUpTo({ExperienceOpen, ExperiencePast, ExperienceMonths}, MaxEntries) :
          cv_data_list = <<[filename |-> <<"c","v",".","p","d","f">>, raw_text |-> <<>>,
                            personal_info |-> [name |-> <<"P","a","t">>],
                            experience |-> exps,
                            parsed_date |-> <<"2","0","2","6">>]>>
    /\ job_description \in RelevanceJobs
    /\ provider = ProviderUp
    /\ \E y \in 0..MaxRequiredYears, sr \in BOOLEAN :
          job_requirements = [NoRequirements EXCEPT !.required_experience_years = y,
                                                    !.is_senior_role = sr,
                                                    !.job_description_text = job_description]

\* a call _calculate_experience_match(CVData(**d), job_requirements,
\* job_description) on the one record d of cv_data_list
CalculateExperience ==
    /\ pc = "init"
    /\ \E r \in {CalculateExperienceMatch(CVData(cv_data_list[1]), job_requirements,
                                          job_description, now_year)} :
          scores' = [raised |-> FALSE, experience |-> r.score,
                     relevant_experience |-> r.relevant_experience]
    /\ pc' = "experience_match"
    /\ UNCHANGED <<skill_categories, weights, cv_data_list, job_description, top_k,
                   include_explanations, provider, now_year, job_requirements, ret,
                   exported, total_years, job_descriptions>>

NextExperience == CalculateExperience

SpecExperience == InitExperience /\ [][NextExperience]_vars

\* the entry has a whitespace-delimited token that is a token of more than
\* three characters of the lower-cased job description
SharesToken(exp, text) ==
    \E word \in Range(Split(Lower(text))) :
        /\ Len(word) > 3
        /\ word \in Range(Split(Lower(exp.job_title \o W_space \o exp.description)))

-----------------------------------------------------------------------------
(* _generate_explanation driven on its own, on the entries of scores that    *)
(* it reads                                                                  *)

\* overall scores on, next to and away from the two thresholds
OverallScores == {<<3, 10>>, <<59, 100>>, <<3, 5>>, <<79, 100>>, <<4, 5>>, <<1, 1>>}

\* the required skills of a job description with the matched skills that
\* _calculate_skill_match returns for them and a candidate
SkillOutcomes ==
    {[required |-> requirements.required_skills,
      matched |-> CalculateSkillMatch(ProviderUp, CVData(d), requirements).matched_skills] :
        requirements \in RequirementVariants(SkillJobs), d \in SkillCVs}

RelevantLists ==
    {<<>>, <<ExperienceOpen.job_title \o W_at \o ExperienceOpen.company>>}

InitExplain ==
    /\ skill_categories = InitSkillCategories
    /\ weights = InitWeights
    /\ \E ex \in ExperienceLists, ed \in EducationLists :
          cv_data_list = <<[filename |-> <<"c","v",".","p","d","f">>, raw_text |-> <<>>,
                            personal_info |-> [name |-> <<"P","a","t">>],
                            experience |-> ex, education |-> ed,
                            parsed_date |-> <<"2","0","2","6">>]>>
    /\ job_description = <<>>
    /\ provider = ProviderUp
    /\ \E outcome \in SkillOutcomes, y \in {0, MaxRequiredYears}, dg \in BOOLEAN,
          o \in OverallScores, rel \in RelevantLists :
          /\ job_requirements = [NoRequirements EXCEPT !.required_skills = outcome.required,
                                                      !.required_experience_years = y,
                                                      !.requires_degree = dg]
          /\ scores = [raised |-> FALSE, overall |-> o,
                       matched_skills |-> outcome.matched, relevant_experience |-> rel]
    /\ top_k = 5
    /\ include_explanations = TRUE
    /\ now_year \in CurrentYears
    /\ ret = <<>>
    /\ exported = <<>>
    /\ total_years = 0
    /\ job_descriptions = <<>>
    /\ pc = "init"

\* a call _generate_explanation(CVData(**d), job_requirements, scores) on the
\* one record d of cv_data_list; ret is explanation_parts
Explain ==
    /\ pc = "init"
    /\ ret' = GenerateExplanation(CVData(cv_data_list[1]), job_requirements, scores, now_year)
    /\ pc' = "explained"
    /\ UNCHANGED <<skill_categories, weights, cv_data_list, job_description, top_k,
                   include_explanations, provider, now_year, job_requirements, scores,
                   exported, total_years, job_descriptions>>

NextExplain == Explain

SpecExplain == InitExplain /\ [][NextExplain]_vars

TierKinds == {"excellent", "good", "limited"}

(* C24: the first part of every explanation is the tier line chosen by the   *)
(* overall score alone: excellent for overall >= 0.8, good for               *)
(* 0.6 <= overall < 0.8, limited for overall < 0.6; there is exactly one     *)
(* tier line.                                                                *)
C24_TierLineFirst ==
    pc = "explained" =>
        /\ ret # <<>>
        /\ ret[1].kind = IF RLe(<<4, 5>>, scores.overall) THEN "excellent"
                         ELSE IF RLe(<<3, 5>>, scores.overall) THEN "good"
                         ELSE "limited"
        /\ \A i \in DOMAIN ret : ret[i].kind \in TierKinds => i = 1

\* an overall score of exactly 0.8, every other line present
C24_Witness ==
    /\ pc = "explained"
    /\ scores.overall = <<4, 5>>
    /\ ret[1].kind = "excellent"
    /\ Len(ret) = 6

(* C25 as claimed: the explanation has a missing-skills line exactly when    *)
(* some required skill is not in matched_skills, and the line lists exactly  *)
(* those required skills, among them every required skill that was matched  *)
(* only semantically.                                                        *)
C25_MissingLineIffDifference ==
    pc = "explained" =>
        LET difference == Range(job_requirements.required_skills)
                              \ Range(scores.matched_skills)
            lines == {i \in DOMAIN ret : ret[i].kind = "missing_skills"}
        IN  /\ (lines # {}) <=> (difference # {})
            /\ \A i \in lines : Range(ret[i].items) = difference

\* what holds of the line: it is there exactly when fewer skills are matched
\* than required, and then lists the required skills not in matched_skills
C25_MissingLineIffFewer ==
    pc = "explained" =>
        LET difference == Range(job_requirements.required_skills)
                              \ Range(scores.matched_skills)
            lines == {i \in DOMAIN ret : ret[i].kind = "missing_skills"}
        IN  /\ (lines # {}) <=> (Len(scores.matched_skills)
                                    < Len(job_requirements.required_skills))
            /\ \A i \in lines : Range(ret[i].items) = difference /\ difference # {}

=============================================================================
